---- MODULE Spec2Model ----
(***************************************************************************)
(* Model of the order pipeline of poly-market-sdk (api/orders.go):         *)
(*   - the market parameter cache (GetTickSize, GetFeeRateBps, GetNegRisk) *)
(*     guarded by OrdersAPI.mu,                                            *)
(*   - CreateAndPostOrder and the submission step CreateOrder,             *)
(*   - the price rounding roundToTickSize on binary floating point.        *)
(***************************************************************************)
EXTENDS Integers, Sequences, FiniteSets, TLC

(***************************************************************************)
(* Binary floating point.  A Go float64 carries a significand of MantBits   *)
(* bits and every operation rounds its exact result to the nearest float,  *)
(* ties to even.  The model computes the same values: a float is            *)
(* <<sign, m, e>> for sign * m * 2^e with m odd.  The significands and the   *)
(* exact intermediate results do not fit the integers of the model checker, *)
(* so naturals of any size are kept as sequences of limbs of LimbBits bits. *)
(* Exponent range, infinities and NaN are not modelled: every divisor of    *)
(* the model is non-zero and no value leaves the range of float64.          *)
(***************************************************************************)
MantBits == 53
LimbBits == 15

RECURSIVE Pow2(_)
Pow2(k) == IF k = 0 THEN 1 ELSE 2 * Pow2(k - 1)

Base == Pow2(LimbBits)

\* Naturals of any size: the limbs, lowest first, no zero limb on top.
Rest(a) == IF a = <<>> THEN <<>> ELSE Tail(a)
Low(a) == IF a = <<>> THEN 0 ELSE a[1]

RECURSIVE BTrim(_)
BTrim(a) == IF a # <<>> /\ a[Len(a)] = 0 THEN BTrim(SubSeq(a, 1, Len(a) - 1)) ELSE a

RECURSIVE BFromInt(_)
BFromInt(k) == IF k = 0 THEN <<>> ELSE <<k % Base>> \o BFromInt(k \div Base)

RECURSIVE BToInt(_)
BToInt(a) == IF a = <<>> THEN 0 ELSE a[1] + Base * BToInt(Tail(a))

RECURSIVE BAddC(_, _, _)
BAddC(a, b, c) ==
  IF a = <<>> /\ b = <<>> THEN (IF c = 0 THEN <<>> ELSE <<c>>)
  ELSE LET x == Low(a) + Low(b) + c
       IN <<x % Base>> \o BAddC(Rest(a), Rest(b), x \div Base)

BAdd(a, b) == BAddC(a, b, 0)

RECURSIVE BSubC(_, _, _)
BSubC(a, b, c) ==
  IF a = <<>> THEN <<>>
  ELSE LET x == a[1] - Low(b) - c
       IN <<(x + Base) % Base>> \o BSubC(Tail(a), Rest(b), IF x < 0 THEN 1 ELSE 0)

\* a - b for a >= b.
BSub(a, b) == BTrim(BSubC(a, b, 0))

RECURSIVE BCmpAt(_, _, _)
BCmpAt(a, b, i) ==
  IF i = 0 THEN 0
  ELSE IF a[i] < b[i] THEN -1
  ELSE IF a[i] > b[i] THEN 1
  ELSE BCmpAt(a, b, i - 1)

\* -1, 0, 1 as a < b, a = b, a > b.
BCmp(a, b) ==
  IF Len(a) < Len(b) THEN -1
  ELSE IF Len(a) > Len(b) THEN 1
  ELSE BCmpAt(a, b, Len(a))

RECURSIVE BMulLimb(_, _, _)
BMulLimb(a, x, c) ==
  IF a = <<>> THEN (IF c = 0 THEN <<>> ELSE <<c>>)
  ELSE LET y == a[1] * x + c
       IN <<y % Base>> \o BMulLimb(Tail(a), x, y \div Base)

RECURSIVE BMul(_, _)
BMul(a, b) ==
  IF a = <<>> \/ b = <<>> THEN <<>>
  ELSE LET hi == BMul(a, Tail(b))
       IN BAdd(BTrim(BMulLimb(a, b[1], 0)), IF hi = <<>> THEN <<>> ELSE <<0>> \o hi)

\* a * 2^k
BShl(a, k) ==
  IF a = <<>> THEN <<>>
  ELSE [i \in 1..(k \div LimbBits) |-> 0] \o BMulLimb(a, Pow2(k % LimbBits), 0)

\* a \div 2^k
BShr(a, k) ==
  LET n == k \div LimbBits
      r == k % LimbBits
      b == IF n >= Len(a) THEN <<>> ELSE SubSeq(a, n + 1, Len(a))
  IN BTrim([i \in 1..Len(b) |->
              (b[i] \div Pow2(r)) + (IF i < Len(b) THEN (b[i + 1] % Pow2(r)) * Pow2(LimbBits - r) ELSE 0)])

RECURSIVE BitLenInt(_)
BitLenInt(k) == IF k = 0 THEN 0 ELSE 1 + BitLenInt(k \div 2)

BBitLen(a) == IF a = <<>> THEN 0 ELSE LimbBits * (Len(a) - 1) + BitLenInt(a[Len(a)])

BBit(a, i) == (a[(i \div LimbBits) + 1] \div Pow2(i % LimbBits)) % 2

BIsOdd(a) == a # <<>> /\ a[1] % 2 = 1

RECURSIVE TrailingZerosInt(_)
TrailingZerosInt(k) == IF k % 2 = 1 THEN 0 ELSE 1 + TrailingZerosInt(k \div 2)

\* The number of zero bits below the lowest one bit of a > 0.
BTrailingZeros(a) ==
  LET k == CHOOSE i \in 1..Len(a) : a[i] # 0 /\ \A j \in 1..(i - 1) : a[j] = 0
  IN LimbBits * (k - 1) + TrailingZerosInt(a[k])

\* Long division of n by d > 0, bit by bit from the top.  <<q, r>> are quotient
\* and remainder of the bits above bit i; BDivBits takes in the next k bits:
\* the remainder doubled plus the bit (BDivStep), compared with d (BDivTake),
\* the new quotient and remainder (BDivNext).
RECURSIVE BDivBits(_, _, _, _, _, _)
BDivNext(n, d, i, k, q, r) ==
  IF Len(q) >= 0 /\ Len(r) >= 0 THEN BDivBits(n, d, i - 1, k - 1, q, r) ELSE <<q, r>>

BDivTake(n, d, i, k, q, r2, ge) ==
  BDivNext(n, d, i, k, BAdd(BShl(q, 1), IF ge THEN <<1>> ELSE <<>>),
           IF ge THEN BSub(r2, d) ELSE r2)

BDivStep(n, d, i, k, q, r2) == BDivTake(n, d, i, k, q, r2, BCmp(r2, d) >= 0)

BDivBits(n, d, i, k, q, r) ==
  IF k = 0 THEN <<q, r>>
  ELSE BDivStep(n, d, i, k, q, BAdd(BShl(r, 1), IF BBit(n, i - 1) = 1 THEN <<1>> ELSE <<>>))

RECURSIVE BDivFrom(_, _, _, _, _)
BDivFrom(n, d, i, q, r) ==
  IF i = 0 THEN <<q, r>>
  ELSE LET k == IF i < LimbBits THEN i ELSE LimbBits
           s == BDivBits(n, d, i, k, q, r)
       IN IF Len(s) = 2 THEN BDivFrom(n, d, i - k, s[1], s[2]) ELSE s

BDivMod(n, d) == BDivFrom(n, d, BBitLen(n), <<>>, <<>>)

RECURSIVE BPow10(_)
BPow10(k) == IF k = 0 THEN <<1>> ELSE BMulLimb(BPow10(k - 1), 10, 0)

\* A float64: <<sign, m, e>> for sign * m * 2^e, m odd; zero is <<0, <<>>, 0>>.
Zero == <<0, <<>>, 0>>

FShiftOut(sg, m, e, z) == <<sg, BShr(m, z), e + z>>
FNorm(sg, m, e) == IF m = <<>> THEN Zero ELSE FShiftOut(sg, m, e, BTrailingZeros(m))

\* sg * m * 2^e rounded to MantBits bits, to nearest, ties to even: q are the
\* bits of m above its lowest s bits, r those s bits, half is 2^(s-1).
RoundsUp(q, c) == c > 0 \/ (c = 0 /\ BIsOdd(q))

FRoundTo(sg, m, e, s, q) ==
  FNorm(sg,
        IF s > 0 /\ RoundsUp(q, BCmp(BSub(m, BShl(q, s)), BShl(<<1>>, s - 1)))
          THEN BAdd(q, <<1>>) ELSE q,
        e + s)

Excess(n) == IF n > MantBits THEN n - MantBits ELSE 0
FRoundBits(sg, m, e, s) == FRoundTo(sg, m, e, s, BShr(m, s))
FRound(sg, m, e) == FRoundBits(sg, m, e, Excess(BBitLen(m)))

\* sg * (a / b) * 2^e rounded, a and b > 0: the quotient of a * 2^s by b has
\* more than MantBits + 1 bits; a remainder is kept as one more bit.
FQuotient(sg, qr, e) ==
  FRound(sg, BAdd(BShl(qr[1], 1), IF qr[2] = <<>> THEN <<>> ELSE <<1>>), e)

FRatioAt(sg, a, b, e, s) == FQuotient(sg, BDivMod(BShl(a, s), b), e - s - 1)
FRatio(sg, a, b, e) == FRatioAt(sg, a, b, e, BBitLen(b) + MantBits + 2)

Sign(k) == IF k < 0 THEN -1 ELSE IF k > 0 THEN 1 ELSE 0
Abs(k) == IF k < 0 THEN -k ELSE k

Fl(x) ==
  IF x[1] = 0 THEN Zero
  ELSE FRatio(Sign(x[1]), BFromInt(Abs(x[1])), BFromInt(x[2]), 0)

FDiv(a, b) == IF a[1] = 0 THEN Zero ELSE FRatio(a[1] * b[1], a[2], b[2], a[3] - b[3])
FMul(a, b) == IF a[1] = 0 \/ b[1] = 0 THEN Zero ELSE FRound(a[1] * b[1], BMul(a[2], b[2]), a[3] + b[3])

\* sa * x * 2^e + sb * y * 2^e rounded; c compares x with y.
FAddAligned(sa, x, sb, y, e, c) ==
  IF sa # sb /\ c = 0 THEN Zero
  ELSE FRound(IF sa = sb \/ c > 0 THEN sa ELSE sb,
              IF sa = sb THEN BAdd(x, y) ELSE IF c > 0 THEN BSub(x, y) ELSE BSub(y, x),
              e)

FAddAt(sa, x, sb, y, e) == FAddAligned(sa, x, sb, y, e, BCmp(x, y))

FAddFrom(a, b, e) == FAddAt(a[1], BShl(a[2], a[3] - e), b[1], BShl(b[2], b[3] - e), e)

FAdd(a, b) ==
  IF a[1] = 0 THEN b
  ELSE IF b[1] = 0 THEN a
  ELSE FAddFrom(a, b, IF a[3] < b[3] THEN a[3] ELSE b[3])

FNeg(a) == <<-a[1], a[2], a[3]>>
FEq(a, b) == a = b
FLess(a, b) == FAdd(a, FNeg(b))[1] < 0

\* int64(x): truncation toward zero; an int64 is <<sign, magnitude>>.
Int64Of(sg, m) == IF m = <<>> THEN <<0, <<>>>> ELSE <<sg, m>>
ToInt64(x) == Int64Of(x[1], IF x[3] >= 0 THEN BShl(x[2], x[3]) ELSE BShr(x[2], -x[3]))

FromInt64(k) == IF k[1] = 0 THEN Zero ELSE FRound(k[1], k[2], 0)

\* The float64 n * 2^e, for an integer n of at most MantBits bits.
FInt(n, e) == IF n = 0 THEN Zero ELSE FNorm(Sign(n), BFromInt(Abs(n)), e)

\* The float64 constants 0.5 and 1.
Half == FInt(1, -1)
One == FInt(1, 0)

\* roundToTickSize: float64(int64(price/tickSize+0.5)) * tickSize.  With a
\* tick size of zero the quotient is an infinity or no number; what int64(...)
\* makes of it depends on the build, but it is an integer, and its product
\* with the tick size is zero.
roundToTickSize(price, tickSize) ==
  IF tickSize = Zero THEN Zero
  ELSE FMul(FromInt64(ToInt64(FAdd(FDiv(price, tickSize), Half))), tickSize)


(***************************************************************************)
(* Decimal text and floats.                                                *)
(***************************************************************************)
\* The decimal texts of the model, and the digits and the number of decimal
\* places of each: the text denotes digits / 10^places.
Decimals == {"0", "0.1", "0.10", "0.01", "0.001", "0.0001", "0.00000000000000001"}

DecimalValue(s) ==
  CASE s = "0" -> <<0, 0>>
    [] s = "0.1" -> <<1, 1>>
    [] s = "0.10" -> <<10, 2>>
    [] s = "0.01" -> <<1, 2>>
    [] s = "0.001" -> <<1, 3>>
    [] s = "0.0001" -> <<1, 4>>
    [] s = "0.00000000000000001" -> <<1, 17>>

\* The float nearest to n / 10^k, a decimal of k places.
Dec(n, k) == IF n = 0 THEN Zero ELSE FRatio(Sign(n), BFromInt(Abs(n)), BPow10(k), 0)

\* strconv.ParseFloat(s, 64) accepts decimal text; json.Unmarshal into a float64
\* field reads a JSON number the same way.
CanParseFloat(s) == s \in Decimals

\* The float of each decimal text, computed once.
DecOf(v) == Dec(v[1], v[2])
ParsedDecimals == [s \in Decimals |-> DecOf(DecimalValue(s))] @@ << >>
ParseFloat(s) == ParsedDecimals[s]

\* strconv.FormatFloat(x, 'f', -1, 64): the shortest decimal text that parses
\* back to x.
FormatFloat(x) ==
  CHOOSE s \in Decimals :
    /\ ParseFloat(s) = x
    /\ \A u \in Decimals : ParseFloat(u) = x => Len(s) <= Len(u)

(***************************************************************************)
(* The program state.                                                      *)
(***************************************************************************)
Tokens == {"t1", "t2"}
Procs == {"c1", "c2"}
NoProc == "none"

\* What the remote collaborator can answer.  A tick size answer without the
\* field minimum_tick_size, or with a 0 in it, decodes to 0.
TickBodies == {"0.10", "0"}
FeeBodies == {0, 30}
NegBodies == BOOLEAN

VARIABLES
  tickSizes,   \* OrdersAPI.tickSizes: tokenID -> tick size text
  feeRates,    \* OrdersAPI.feeRates: tokenID -> fee rate bps
  negRisks,    \* OrdersAPI.negRisks: tokenID -> neg-risk flag
  mu,          \* OrdersAPI.mu: the RWMutex (readers holding it, writer holding it)
  creds,       \* Client.apiKey, apiSecret, apiPassphrase
  funder,      \* Client.funder
  getter,      \* per caller: the frame of its running cache getter
  order,       \* per caller: the frame of its running CreateAndPostOrder
  trace,       \* per caller: what its current top-level call did so far (history)
  served,      \* per field and token: the bodies the remote side answered (history)
  firstTick,   \* per token: calls of GetTickSize completed, the first one's result (history)
  callers,     \* the callers that issue calls in this run
  tokens,      \* the token ids they ask for in this run
  inputs,      \* per caller: what it calls CreateAndPostOrder with in this run
  clock,       \* what time.Now() gives (seconds since the epoch)
  rp, rt, rr,  \* a price, a tick size and the results of rounding them
  l2,          \* two calls of SignL2Auth: their arguments and what they returned
  b64,         \* a text, its toURLSafeBase64 form and the toBase64 form of that
  auth,        \* per caller: the frame of its running signing or registration call
  http         \* per caller: the frame of its running L2-authenticated operation

vars == <<tickSizes, feeRates, negRisks, mu, creds, funder, getter, order, trace,
          served, firstTick, callers, tokens, inputs, clock, rp, rt, rr,
          l2, b64, auth, http>>

cacheVars == <<tickSizes, feeRates, negRisks>>
roundVars == <<rp, rt, rr>>
signVars == <<l2, b64, auth, http>>
runVars == <<callers, tokens, inputs, clock>>

\* A map assignment that is lost.
MapPutDropped(m, k, v) == m

\* A Go map: insert or overwrite.
MapPut(m, k, v) == [x \in DOMAIN m \cup {k} |-> IF x = k THEN v ELSE m[x]]

EmptyMap == [x \in {} |-> 0]

\* sync.RWMutex: RLock waits while a writer holds the lock, Lock waits while
\* anybody holds it.
CanRLock == mu.writer = NoProc
\* A Lock that does not wait for the readers.
CanLockAmongReaders == mu.writer = NoProc
CanLock == mu.writer = NoProc /\ mu.readers = {}
RLock(c) == mu' = [mu EXCEPT !.readers = @ \cup {c}]
RUnlockForgotten(c) == mu' = mu
RUnlock(c) == mu' = [mu EXCEPT !.readers = @ \ {c}]
Lock(c) == mu' = [mu EXCEPT !.writer = c]
Unlock(c) == mu' = [mu EXCEPT !.writer = NoProc]

GoodCreds == [apiKey |-> "k1", apiSecret |-> "s1", apiPassphrase |-> "p1"]
NoCreds == [apiKey |-> "", apiSecret |-> "", apiPassphrase |-> ""]

IdleGetter ==
  [fn |-> "none", tokenID |-> "", pc |-> "idle", nested |-> FALSE,
   tickSize |-> "", feeRate |-> 0, negRisk |-> FALSE, err |-> ""]

NewGetter(fn, tok, nested) ==
  [IdleGetter EXCEPT !.fn = fn, !.tokenID = tok, !.pc = "rlock", !.nested = nested]

NilParams == [TokenID |-> "", Price |-> Zero, Side |-> 0, Size |-> Zero]
NilConfig == [TickSize |-> "", NegRisk |-> <<>>]

IdleOrder ==
  [pc |-> "idle", params |-> NilParams, config |-> NilConfig, orderType |-> "",
   tickSizeStr |-> "", roundedPrice |-> Zero, makerAmount |-> 0, takerAmount |-> 0,
   feeRateBps |-> 0, expiration |-> 0, negRisk |-> FALSE, contract |-> "",
   signedOrder |-> <<>>, signedAt |-> 0, resp |-> "nil", err |-> ""]

\* A caller is between two top-level calls.
Idle(c) == getter[c].pc \in {"idle", "ret"} /\ order[c].pc \in {"idle", "ret"}

Min(a, b) == IF a < b THEN a ELSE b

Log(c, ev) == trace' = [trace EXCEPT ![c] = Append(@, ev)]

\* Reading a history: its events, how often one occurs, one before another.
Range(t) == {t[i] : i \in 1..Len(t)}
Count(t, ev) == Cardinality({i \in 1..Len(t) : t[i] = ev})
Before(t, a, b) == \E i, j \in 1..Len(t) : i < j /\ t[i] = a /\ t[j] = b

TickEvents == {"lookup_tick", "fetch_tick", "insert_tick"}
FeeEvents == {"lookup_fee", "fetch_fee", "insert_fee"}
NegEvents == {"lookup_neg", "fetch_neg", "insert_neg"}

\* History: one more GetTickSize(tok) call has returned (ret, err).
\* Kept in runs of a single caller only, where "first" and "later" are defined.
NoteTick(tok, ret, err) ==
  IF Cardinality(callers) > 1 THEN UNCHANGED firstTick
  ELSE firstTick' = [firstTick EXCEPT ![tok] =
    [n |-> Min(@.n + 1, 2),
     ret |-> IF @.n = 0 THEN ret ELSE @.ret,
     ok |-> IF err = "" THEN Min(@.ok + 1, 2) ELSE @.ok,
     okRet |-> IF err = "" /\ @.ok = 0 THEN ret ELSE @.okRet]]

\* History: the remote side answered body b for (field, tok).
Serve(field, tok, b) ==
  served' = [served EXCEPT ![field][tok] = @ \cup {b}]

(***************************************************************************)
(* The cache getters, api/orders.go:608-722.  Each runs in steps:          *)
(*   rlock -> lookup -> (hit: ret) | fetch -> (error: ret) | lock -> store *)
(*   -> ret.                                                               *)
(***************************************************************************)
\* A caller calls one of the three getters directly.
CallGetter(c) ==
  /\ c \in callers
  /\ Idle(c)
  /\ \E fn \in {"GetTickSize", "GetFeeRateBps", "GetNegRisk"}, tok \in tokens :
       getter' = [getter EXCEPT ![c] = NewGetter(fn, tok, FALSE)]
  /\ order' = [order EXCEPT ![c] = IdleOrder]
  /\ trace' = [trace EXCEPT ![c] = <<>>]
  /\ UNCHANGED <<cacheVars, mu, creds, funder, served, firstTick, runVars, roundVars, signVars>>

\* A caller whose getter call returned an error calls the same getter for the
\* same token again (the error is surfaced; the caller may retry).
RetryGetter(c) ==
  /\ c \in callers
  /\ Idle(c)
  /\ getter[c].pc = "ret" /\ getter[c].err # "" /\ ~getter[c].nested
  /\ getter' = [getter EXCEPT ![c] = NewGetter(getter[c].fn, getter[c].tokenID, FALSE)]
  /\ order' = [order EXCEPT ![c] = IdleOrder]
  /\ trace' = [trace EXCEPT ![c] = <<"retry">>]
  /\ UNCHANGED <<cacheVars, mu, creds, funder, served, firstTick, runVars, roundVars, signVars>>

\* o.mu.RLock()
GetterRLock(c) ==
  /\ getter[c].pc = "rlock"
  /\ CanRLock
  /\ RLock(c)
  /\ getter' = [getter EXCEPT ![c].pc = "lookup"]
  /\ UNCHANGED <<cacheVars, creds, funder, order, trace, served, firstTick, runVars, roundVars, signVars>>

\* o.mu.Lock()
GetterLock(c) ==
  /\ getter[c].pc = "lock"
  /\ CanLock
  /\ Lock(c)
  /\ getter' = [getter EXCEPT ![c].pc = "store"]
  /\ UNCHANGED <<cacheVars, creds, funder, order, trace, served, firstTick, runVars, roundVars, signVars>>

\* GetTickSize: the cache check under the read lock (lines 610-615).
GetTickSizeLookup(c) ==
  LET g == getter[c] IN
  /\ g.fn = "GetTickSize" /\ g.pc = "lookup"
  /\ RUnlock(c)
  /\ Log(c, "lookup_tick")
  /\ IF g.tokenID \in DOMAIN tickSizes
       THEN /\ getter' = [getter EXCEPT ![c].pc = "ret",
                                        ![c].tickSize = tickSizes[g.tokenID]]
            /\ NoteTick(g.tokenID, tickSizes[g.tokenID], "")
       ELSE /\ getter' = [getter EXCEPT ![c].pc = "fetch"]
            /\ UNCHANGED firstTick
  /\ UNCHANGED <<cacheVars, creds, funder, order, served, runVars, roundVars, signVars>>

\* A fetch that drops the cached entry of the token when the request fails.
GetTickSizeFetchInvalidate(c) ==
  LET g == getter[c] IN
  /\ g.fn = "GetTickSize" /\ g.pc = "fetch"
  /\ Log(c, "fetch_tick")
  /\ \/ /\ getter' = [getter EXCEPT ![c].pc = "ret", ![c].err = "get tick size"]
        /\ NoteTick(g.tokenID, "", "get tick size")
        /\ tickSizes' = [x \in DOMAIN tickSizes \ {g.tokenID} |-> tickSizes[x]]
        /\ UNCHANGED served
     \/ \E b \in TickBodies :
          /\ getter' = [getter EXCEPT ![c].pc = "lock",
                                      ![c].tickSize = FormatFloat(ParseFloat(b))]
          /\ Serve("tick", g.tokenID, b)
          /\ UNCHANGED <<firstTick, tickSizes>>
  /\ UNCHANGED <<feeRates, negRisks, mu, creds, funder, order, runVars, roundVars, signVars>>

\* GetTickSize: the request, its decoding and the formatting (lines 617-634).
GetTickSizeFetch(c) ==
  LET g == getter[c] IN
  /\ g.fn = "GetTickSize" /\ g.pc = "fetch"
  /\ Log(c, "fetch_tick")
  /\ \/ /\ getter' = [getter EXCEPT ![c].pc = "ret", ![c].err = "get tick size"]
        /\ NoteTick(g.tokenID, "", "get tick size")
        /\ UNCHANGED served
     \/ /\ getter' = [getter EXCEPT ![c].pc = "ret", ![c].err = "unmarshal response"]
        /\ NoteTick(g.tokenID, "", "unmarshal response")
        /\ UNCHANGED served
     \/ \E b \in TickBodies :
          /\ getter' = [getter EXCEPT ![c].pc = "lock",
                                      ![c].tickSize = FormatFloat(ParseFloat(b))]
          /\ Serve("tick", g.tokenID, b)
          /\ UNCHANGED firstTick
  /\ UNCHANGED <<cacheVars, mu, creds, funder, order, runVars, roundVars, signVars>>

\* An insert that also fills the fee rate entry of the token.
GetTickSizeStoreAll(c) ==
  LET g == getter[c] IN
  /\ g.fn = "GetTickSize" /\ g.pc = "store"
  /\ tickSizes' = MapPut(tickSizes, g.tokenID, g.tickSize)
  /\ feeRates' = MapPut(feeRates, g.tokenID, 0)
  /\ Unlock(c)
  /\ Log(c, "insert_tick")
  /\ getter' = [getter EXCEPT ![c].pc = "ret"]
  /\ NoteTick(g.tokenID, g.tickSize, "")
  /\ UNCHANGED <<negRisks, creds, funder, order, served, runVars, roundVars, signVars>>

\* An insert that gives up, returning no value, when the entry is already there.
GetTickSizeStoreOnce(c) ==
  LET g == getter[c] IN
  /\ g.fn = "GetTickSize" /\ g.pc = "store"
  /\ Unlock(c)
  /\ Log(c, "insert_tick")
  /\ IF g.tokenID \in DOMAIN tickSizes
       THEN /\ getter' = [getter EXCEPT ![c].pc = "ret", ![c].tickSize = ""]
            /\ UNCHANGED tickSizes
       ELSE /\ getter' = [getter EXCEPT ![c].pc = "ret"]
            /\ tickSizes' = MapPut(tickSizes, g.tokenID, g.tickSize)
  /\ NoteTick(g.tokenID, g.tickSize, "")
  /\ UNCHANGED <<feeRates, negRisks, creds, funder, order, served, runVars, roundVars, signVars>>

\* GetTickSize: the insert under the write lock and the return (lines 636-641).
GetTickSizeStore(c) ==
  LET g == getter[c] IN
  /\ g.fn = "GetTickSize" /\ g.pc = "store"
  /\ tickSizes' = MapPut(tickSizes, g.tokenID, g.tickSize)
  /\ Unlock(c)
  /\ Log(c, "insert_tick")
  /\ getter' = [getter EXCEPT ![c].pc = "ret"]
  /\ NoteTick(g.tokenID, g.tickSize, "")
  /\ UNCHANGED <<feeRates, negRisks, creds, funder, order, served, runVars, roundVars, signVars>>

\* GetFeeRateBps: the cache check under the read lock (lines 652-658).
GetFeeRateBpsLookup(c) ==
  LET g == getter[c] IN
  /\ g.fn = "GetFeeRateBps" /\ g.pc = "lookup"
  /\ RUnlock(c)
  /\ Log(c, "lookup_fee")
  /\ IF g.tokenID \in DOMAIN feeRates
       THEN getter' = [getter EXCEPT ![c].pc = "ret", ![c].feeRate = feeRates[g.tokenID]]
       ELSE getter' = [getter EXCEPT ![c].pc = "fetch"]
  /\ UNCHANGED <<cacheVars, creds, funder, order, served, firstTick, runVars, roundVars, signVars>>

\* A fetch that remembers a failed request as fee rate 0.
GetFeeRateBpsFetchCacheFailure(c) ==
  LET g == getter[c] IN
  /\ g.fn = "GetFeeRateBps" /\ g.pc = "fetch"
  /\ Log(c, "fetch_fee")
  /\ \/ /\ getter' = [getter EXCEPT ![c].pc = "ret", ![c].err = "get fee rate bps"]
        /\ feeRates' = MapPut(feeRates, g.tokenID, 0)
        /\ UNCHANGED served
     \/ /\ getter' = [getter EXCEPT ![c].pc = "ret", ![c].err = "unmarshal response"]
        /\ UNCHANGED <<served, feeRates>>
     \/ \E b \in FeeBodies :
          /\ getter' = [getter EXCEPT ![c].pc = "lock", ![c].feeRate = b]
          /\ Serve("fee", g.tokenID, b)
          /\ UNCHANGED feeRates
  /\ UNCHANGED <<tickSizes, negRisks, mu, creds, funder, order, firstTick, runVars, roundVars, signVars>>

\* GetFeeRateBps: the request and its decoding (lines 660-674).
GetFeeRateBpsFetch(c) ==
  LET g == getter[c] IN
  /\ g.fn = "GetFeeRateBps" /\ g.pc = "fetch"
  /\ Log(c, "fetch_fee")
  /\ \/ /\ getter' = [getter EXCEPT ![c].pc = "ret", ![c].err = "get fee rate bps"]
        /\ UNCHANGED served
     \/ /\ getter' = [getter EXCEPT ![c].pc = "ret", ![c].err = "unmarshal response"]
        /\ UNCHANGED served
     \/ \E b \in FeeBodies :
          /\ getter' = [getter EXCEPT ![c].pc = "lock", ![c].feeRate = b]
          /\ Serve("fee", g.tokenID, b)
  /\ UNCHANGED <<cacheVars, mu, creds, funder, order, firstTick, runVars, roundVars, signVars>>

\* GetFeeRateBps: the insert under the write lock and the return (lines 676-681).
GetFeeRateBpsStore(c) ==
  LET g == getter[c] IN
  /\ g.fn = "GetFeeRateBps" /\ g.pc = "store"
  /\ feeRates' = MapPut(feeRates, g.tokenID, g.feeRate)
  /\ Unlock(c)
  /\ Log(c, "insert_fee")
  /\ getter' = [getter EXCEPT ![c].pc = "ret"]
  /\ UNCHANGED <<tickSizes, negRisks, creds, funder, order, served, firstTick, runVars, roundVars, signVars>>

\* GetNegRisk: the cache check under the read lock (lines 692-698).
GetNegRiskLookup(c) ==
  LET g == getter[c] IN
  /\ g.fn = "GetNegRisk" /\ g.pc = "lookup"
  /\ RUnlock(c)
  /\ Log(c, "lookup_neg")
  /\ IF g.tokenID \in DOMAIN negRisks
       THEN getter' = [getter EXCEPT ![c].pc = "ret", ![c].negRisk = negRisks[g.tokenID]]
       ELSE getter' = [getter EXCEPT ![c].pc = "fetch"]
  /\ UNCHANGED <<cacheVars, creds, funder, order, served, firstTick, runVars, roundVars, signVars>>

\* GetNegRisk: the request and its decoding (lines 700-714).
GetNegRiskFetch(c) ==
  LET g == getter[c] IN
  /\ g.fn = "GetNegRisk" /\ g.pc = "fetch"
  /\ Log(c, "fetch_neg")
  /\ \/ /\ getter' = [getter EXCEPT ![c].pc = "ret", ![c].err = "get neg risk"]
        /\ UNCHANGED served
     \/ /\ getter' = [getter EXCEPT ![c].pc = "ret", ![c].err = "unmarshal response"]
        /\ UNCHANGED served
     \/ \E b \in NegBodies :
          /\ getter' = [getter EXCEPT ![c].pc = "lock", ![c].negRisk = b]
          /\ Serve("neg", g.tokenID, b)
  /\ UNCHANGED <<cacheVars, mu, creds, funder, order, firstTick, runVars, roundVars, signVars>>

\* GetNegRisk: the insert under the write lock and the return (lines 716-721).
GetNegRiskStore(c) ==
  LET g == getter[c] IN
  /\ g.fn = "GetNegRisk" /\ g.pc = "store"
  /\ negRisks' = MapPut(negRisks, g.tokenID, g.negRisk)
  /\ Unlock(c)
  /\ Log(c, "insert_neg")
  /\ getter' = [getter EXCEPT ![c].pc = "ret"]
  /\ UNCHANGED <<tickSizes, feeRates, creds, funder, order, served, firstTick, runVars, roundVars, signVars>>

GetterStep(c) ==
  \/ GetterRLock(c)
  \/ GetterLock(c)
  \/ GetTickSizeLookup(c)
  \/ GetTickSizeFetch(c)
  \/ GetTickSizeStore(c)
  \/ GetFeeRateBpsLookup(c)
  \/ GetFeeRateBpsFetch(c)
  \/ GetFeeRateBpsStore(c)
  \/ GetNegRiskLookup(c)
  \/ GetNegRiskFetch(c)
  \/ GetNegRiskStore(c)

(***************************************************************************)
(* CreateAndPostOrder, api/orders.go:437-594, and the submission step      *)
(* CreateOrder, api/orders.go:78-136.                                      *)
(***************************************************************************)
\* The instants at which a run can start (seconds since the epoch).
Times == {1700000000}
StartTime == CHOOSE t \in Times : TRUE

\* An expiration set 30 days ahead for every order type.
ExpirationAlways(orderType, now) == now + 30 * 24 * 3600

\* Lines 524-531: time.Now().Add(30 * 24 * time.Hour).Unix() for a GTD order,
\* 0 for every other order type.
Expiration(orderType, now) == IF orderType = "GTD" THEN now + 30 * 24 * 3600 ELSE 0

\* COLLATERAL_TOKEN_DECIMALS = CONDITIONAL_TOKEN_DECIMALS = 6: big.NewFloat(1e6).
OneE6 == FInt(1000000, 0)

\* big.NewFloat(x).Mul(.., big.NewFloat(1e6)).Int(nil): a product on 53 bit
\* big.Floats, truncated toward zero (lines 496-498).
Int64Value(i) == i[1] * BToInt(i[2])
ScaledAmount(x) == Int64Value(ToInt64(FMul(x, OneE6)))

\* What CreateAndPostOrder is called with: a valid intent, a price outside (0,1),
\* a size that is not positive.
ValidIntent == [Price |-> Half, Size |-> FInt(5, 0)]

\* Intent, side (BUY 0, SELL 1) and order type (expiring or not) of the calls.
Cases ==
  {[intent |-> ValidIntent, Side |-> 0, orderType |-> "GTC"],
   [intent |-> ValidIntent, Side |-> 1, orderType |-> "GTD"],
   [intent |-> [Price |-> FInt(3, -1), Size |-> FInt(5, 0)], Side |-> 0, orderType |-> "GTD"],
   [intent |-> [Price |-> Half, Size |-> Zero], Side |-> 1, orderType |-> "GTC"]}

\* The calls of the runs that look at the order payload: price 0.5 and price
\* 0.09, size 5, bought and sold, expiring or not.
PayloadCases ==
  {[intent |-> [Price |-> Dec(k[1], 2), Size |-> FInt(5, 0)], Side |-> k[2], orderType |-> k[3]] :
     k \in {<<50, 0, "GTD">>, <<50, 1, "GTC">>, <<9, 0, "FOK">>, <<9, 1, "GTD">>}}

\* The rounding and the products of lines 490-511 for the prices, sizes and
\* tick sizes of the calls of this model, computed once for all runs.
OrderPrices == {k.intent.Price : k \in Cases \cup PayloadCases}
OrderSizes == {k.intent.Size : k \in Cases \cup PayloadCases}

\* Lines 490-511: the rounded price, roundedPrice * size and size, the two
\* scaled to 6 decimals.
AmountsFor(roundedPrice, size) ==
  [roundedPrice |-> roundedPrice,
   usdc |-> ScaledAmount(FMul(roundedPrice, size)),
   toks |-> ScaledAmount(size)]

Amounts ==
  [p \in OrderPrices, z \in OrderSizes, t \in Decimals |->
     AmountsFor(roundToTickSize(p, ParseFloat(t)), z)] @@ << >>

\* The standard exchange whatever the flag.
ContractForStandard(negRisk) == "CTFExchange"

\* ordermodel.CTFExchange / NegRiskCTFExchange (lines 545-550).
ContractFor(negRisk) == IF negRisk THEN "NegRiskCTFExchange" ELSE "CTFExchange"

\* Client.address (the checksummed text GetAddressFromPrivateKey derives from
\* the private key) and the zero address.
SignerAddress == "0xA"
ZeroAddress == "0x0"

\* common.HexToAddress(s).Hex(): the checksummed text of an address: 0x and its
\* digits, the letters in the case EIP-55 gives them (the upper case here).
RECURSIVE UpperHex(_)
UpperHex(s) ==
  IF s = "" THEN ""
  ELSE LET r == SubSeq(s, 1, 1)
       IN (CASE r = "a" -> "A" [] r = "b" -> "B" [] r = "c" -> "C"
             [] r = "d" -> "D" [] r = "e" -> "E" [] r = "f" -> "F"
             [] OTHER -> r) \o UpperHex(SubSeq(s, 2, Len(s)))

Checksum(s) ==
  "0x" \o UpperHex(IF Len(s) >= 2 /\ SubSeq(s, 1, 2) \in {"0x", "0X"}
                     THEN SubSeq(s, 3, Len(s)) ELSE s)

\* A maker that is the signer whatever funder is configured.
MakerOfSigner(f) == SignerAddress

\* Lines 462-466: the funder, or the address when no funder is configured.
Maker(f) == IF f = "" THEN SignerAddress ELSE f

\* The call returns (nil, err).
Fail(c, msg) ==
  order' = [order EXCEPT ![c].pc = "ret", ![c].err = msg, ![c].resp = "nil"]

\* Lines 437-471: the argument checks and the client configuration.  NewClient
\* refuses an empty or malformed private key, so the two private key checks
\* (lines 450-458) pass on every client that exists.
CallCreateAndPostOrder(c) ==
  /\ c \in callers
  /\ Idle(c)
  /\ getter' = [getter EXCEPT ![c] = IdleGetter]
  /\ trace' = [trace EXCEPT ![c] = <<>>]
  /\ \/ order' = [order EXCEPT ![c] =
                    [IdleOrder EXCEPT !.pc = "ret", !.err = "params is required"]]
     \/ order' = [order EXCEPT ![c] =
                    [IdleOrder EXCEPT !.pc = "ret", !.err = "config is required"]]
     \/ \E in \in inputs[c] :
          order' = [order EXCEPT ![c] =
                      [IdleOrder EXCEPT !.pc = "tick", !.params = in.params,
                                        !.config = in.config, !.orderType = in.orderType]]
  /\ UNCHANGED <<cacheVars, mu, creds, funder, served, firstTick, runVars, roundVars, signVars>>

\* A resolution that asks GetTickSize whatever the configuration says.
ResolveTickSizeNoOverride(c) ==
  LET o == order[c] IN
  /\ o.pc = "tick"
  /\ order' = [order EXCEPT ![c].pc = "tick_wait"]
  /\ getter' = [getter EXCEPT ![c] = NewGetter("GetTickSize", o.params.TokenID, TRUE)]
  /\ UNCHANGED <<cacheVars, mu, creds, funder, trace, served, firstTick, runVars, roundVars, signVars>>

\* Lines 473-481: the tick size of the configuration, or GetTickSize.
ResolveTickSize(c) ==
  LET o == order[c] IN
  /\ o.pc = "tick"
  /\ IF o.config.TickSize # ""
       THEN /\ order' = [order EXCEPT ![c].pc = "round",
                                      ![c].tickSizeStr = o.config.TickSize]
            /\ Log(c, "tick_resolved")
            /\ UNCHANGED getter
       ELSE /\ order' = [order EXCEPT ![c].pc = "tick_wait"]
            /\ getter' = [getter EXCEPT ![c] = NewGetter("GetTickSize", o.params.TokenID, TRUE)]
            /\ UNCHANGED trace
  /\ UNCHANGED <<cacheVars, mu, creds, funder, served, firstTick, runVars, roundVars, signVars>>

\* A caller that asks GetTickSize once more when it failed.
TickSizeReturnedRetry(c) ==
  LET o == order[c]
      g == getter[c]
  IN
  /\ o.pc = "tick_wait" /\ g.pc = "ret"
  /\ IF g.err # "" /\ Count(trace[c], "fetch_tick") < 2
       THEN /\ getter' = [getter EXCEPT ![c] = NewGetter("GetTickSize", o.params.TokenID, TRUE)]
            /\ UNCHANGED <<order, trace>>
       ELSE /\ getter' = [getter EXCEPT ![c] = IdleGetter]
            /\ IF g.err # ""
                 THEN Fail(c, "get tick size") /\ UNCHANGED trace
                 ELSE /\ order' = [order EXCEPT ![c].pc = "round", ![c].tickSizeStr = g.tickSize]
                      /\ Log(c, "tick_resolved")
  /\ UNCHANGED <<cacheVars, mu, creds, funder, served, firstTick, runVars, roundVars, signVars>>

\* Lines 477-480: GetTickSize returned.
TickSizeReturned(c) ==
  LET o == order[c]
      g == getter[c]
  IN
  /\ o.pc = "tick_wait" /\ g.pc = "ret"
  /\ getter' = [getter EXCEPT ![c] = IdleGetter]
  /\ IF g.err # ""
       THEN Fail(c, "get tick size") /\ UNCHANGED trace
       ELSE /\ order' = [order EXCEPT ![c].pc = "round", ![c].tickSizeStr = g.tickSize]
            /\ Log(c, "tick_resolved")
  /\ UNCHANGED <<cacheVars, mu, creds, funder, served, firstTick, runVars, roundVars, signVars>>

\* Lines 492-512: the maker pays and the taker gets USDC for tokens on a BUY,
\* tokens for USDC on a SELL.
WithAmounts(o, a) ==
  [o EXCEPT !.pc = "fee",
            !.roundedPrice = a.roundedPrice,
            !.makerAmount = IF o.params.Side = 0 THEN a.usdc ELSE a.toks,
            !.takerAmount = IF o.params.Side = 0 THEN a.toks ELSE a.usdc]

\* Lines 483-512: the tick size parsed, the price rounded, the two amounts.
RoundPrice(c) ==
  LET o == order[c] IN
  /\ o.pc = "round"
  /\ IF ~CanParseFloat(o.tickSizeStr)
       THEN Fail(c, "invalid tickSize") /\ UNCHANGED trace
       ELSE /\ order' = [order EXCEPT ![c] = WithAmounts(o, Amounts[o.params.Price, o.params.Size, o.tickSizeStr])]
            /\ Log(c, "round")
  /\ UNCHANGED <<cacheVars, mu, creds, funder, getter, served, firstTick, runVars, roundVars, signVars>>

\* Lines 517-518: GetFeeRateBps is called.
ResolveFeeRate(c) ==
  LET o == order[c] IN
  /\ o.pc = "fee"
  /\ order' = [order EXCEPT ![c].pc = "fee_wait"]
  /\ getter' = [getter EXCEPT ![c] = NewGetter("GetFeeRateBps", o.params.TokenID, TRUE)]
  /\ UNCHANGED <<cacheVars, mu, creds, funder, trace, served, firstTick, runVars, roundVars, signVars>>

\* A caller that goes on, with no fee rate, when GetFeeRateBps failed.
FeeRateReturnedUnchecked(c) ==
  LET o == order[c]
      g == getter[c]
  IN
  /\ o.pc = "fee_wait" /\ g.pc = "ret"
  /\ getter' = [getter EXCEPT ![c] = IdleGetter]
  /\ order' = [order EXCEPT
                 ![c].pc = "neg",
                 ![c].feeRateBps = g.feeRate,
                 ![c].expiration = Expiration(o.orderType, clock)]
  /\ IF g.err # "" THEN UNCHANGED trace ELSE Log(c, "fee_resolved")
  /\ UNCHANGED <<cacheVars, mu, creds, funder, served, firstTick, runVars, roundVars, signVars>>

\* Lines 519-531: GetFeeRateBps returned; the expiration.
FeeRateReturned(c) ==
  LET o == order[c]
      g == getter[c]
  IN
  /\ o.pc = "fee_wait" /\ g.pc = "ret"
  /\ getter' = [getter EXCEPT ![c] = IdleGetter]
  /\ IF g.err # ""
       THEN Fail(c, "get fee rate bps") /\ UNCHANGED trace
       ELSE /\ order' = [order EXCEPT
                           ![c].pc = "neg",
                           ![c].feeRateBps = g.feeRate,
                           ![c].expiration = Expiration(o.orderType, clock)]
            /\ Log(c, "fee_resolved")
  /\ UNCHANGED <<cacheVars, mu, creds, funder, served, firstTick, runVars, roundVars, signVars>>

\* Lines 533-550: the neg-risk flag of the configuration, or GetNegRisk.
ResolveNegRisk(c) ==
  LET o == order[c] IN
  /\ o.pc = "neg"
  /\ IF o.config.NegRisk # <<>>
       THEN /\ order' = [order EXCEPT ![c].pc = "sign",
                                      ![c].negRisk = o.config.NegRisk[1],
                                      ![c].contract = ContractFor(o.config.NegRisk[1])]
            /\ Log(c, "neg_resolved")
            /\ UNCHANGED getter
       ELSE /\ order' = [order EXCEPT ![c].pc = "neg_wait"]
            /\ getter' = [getter EXCEPT ![c] = NewGetter("GetNegRisk", o.params.TokenID, TRUE)]
            /\ UNCHANGED trace
  /\ UNCHANGED <<cacheVars, mu, creds, funder, served, firstTick, runVars, roundVars, signVars>>

\* Lines 537-550: GetNegRisk returned.
NegRiskReturned(c) ==
  LET o == order[c]
      g == getter[c]
  IN
  /\ o.pc = "neg_wait" /\ g.pc = "ret"
  /\ getter' = [getter EXCEPT ![c] = IdleGetter]
  /\ IF g.err # ""
       THEN Fail(c, "get neg risk") /\ UNCHANGED trace
       ELSE /\ order' = [order EXCEPT ![c].pc = "sign",
                                      ![c].negRisk = g.negRisk,
                                      ![c].contract = ContractFor(g.negRisk)]
            /\ Log(c, "neg_resolved")
  /\ UNCHANGED <<cacheVars, mu, creds, funder, served, firstTick, runVars, roundVars, signVars>>

\* A signing step that goes on to the submission when BuildSignedOrder failed.
SignOrderUnchecked(c) ==
  LET o == order[c] IN
  /\ o.pc = "sign"
  /\ \/ order' = [order EXCEPT ![c].pc = "submit"] /\ UNCHANGED trace
     \/ /\ order' = [order EXCEPT
                       ![c].pc = "submit",
                       ![c].signedOrder =
                         <<[Maker |-> Checksum(Maker(funder)),
                            Signer |-> Checksum(SignerAddress),
                            Taker |-> Checksum(ZeroAddress),
                            TokenID |-> o.params.TokenID,
                            MakerAmount |-> o.makerAmount,
                            TakerAmount |-> o.takerAmount,
                            Expiration |-> o.expiration,
                            Nonce |-> 0,
                            FeeRateBps |-> o.feeRateBps,
                            Side |-> o.params.Side,
                            Contract |-> o.contract]>>,
                       ![c].signedAt = clock]
        /\ Log(c, "sign")
  /\ UNCHANGED <<cacheVars, mu, creds, funder, getter, served, firstTick, runVars, roundVars, signVars>>

\* Lines 552-591: the order data, BuildSignedOrder (which can fail, for one on a
\* token id that is no number) and the conversion to models.SignedOrder.
SignOrder(c) ==
  LET o == order[c] IN
  /\ o.pc = "sign"
  /\ \/ Fail(c, "build signed order") /\ UNCHANGED trace
     \/ /\ order' = [order EXCEPT
                       ![c].pc = "submit",
                       ![c].signedOrder =
                         <<[Maker |-> Checksum(Maker(funder)),
                            Signer |-> Checksum(SignerAddress),
                            Taker |-> Checksum(ZeroAddress),
                            TokenID |-> o.params.TokenID,
                            MakerAmount |-> o.makerAmount,
                            TakerAmount |-> o.takerAmount,
                            Expiration |-> o.expiration,
                            Nonce |-> 0,
                            FeeRateBps |-> o.feeRateBps,
                            Side |-> o.params.Side,
                            Contract |-> o.contract]>>,
                       ![c].signedAt = clock]
        /\ Log(c, "sign")
  /\ UNCHANGED <<cacheVars, mu, creds, funder, getter, served, firstTick, runVars, roundVars, signVars>>

\* Line 593 and CreateOrder (lines 78-136) with apiKey "": the credential
\* checks, the L2 headers, the POST /order request and its answer.
CreateOrder(c) ==
  LET o == order[c] IN
  /\ o.pc = "submit"
  /\ IF creds.apiKey = ""
       THEN Fail(c, "API key is required for creating orders") /\ UNCHANGED trace
       ELSE IF creds.apiSecret = "" \/ creds.apiPassphrase = ""
       THEN Fail(c, "API secret and passphrase are required for creating orders")
            /\ UNCHANGED trace
       ELSE /\ Log(c, "post")
            /\ \/ Fail(c, "create order")
               \/ Fail(c, "unmarshal response")
               \/ order' = [order EXCEPT ![c].pc = "ret", ![c].resp = "rejected",
                                         ![c].err = "order placement error"]
               \/ order' = [order EXCEPT ![c].pc = "ret", ![c].resp = "accepted"]
  /\ UNCHANGED <<cacheVars, mu, creds, funder, getter, served, firstTick, runVars, roundVars, signVars>>

OrderStep(c) ==
  \/ ResolveTickSize(c)
  \/ TickSizeReturned(c)
  \/ RoundPrice(c)
  \/ ResolveFeeRate(c)
  \/ FeeRateReturned(c)
  \/ ResolveNegRisk(c)
  \/ NegRiskReturned(c)
  \/ SignOrder(c)
  \/ CreateOrder(c)

(***************************************************************************)
(* auth/signing.go: the two base64 alphabets, SignL2Auth, SignL1Auth.       *)
(***************************************************************************)
\* The character of text s at position i, and the text after its first n
\* characters.
Char(s, i) == SubSeq(s, i, i)
Drop(s, n) == SubSeq(s, n + 1, Len(s))

\* Lines 226-239: '+' becomes '-', '/' becomes '_', every other rune is kept.
RECURSIVE toURLSafeBase64(_)
toURLSafeBase64(s) ==
  IF s = "" THEN ""
  ELSE LET r == Char(s, 1)
       IN (CASE r = "+" -> "-"
             [] r = "/" -> "_"
             [] OTHER -> r) \o toURLSafeBase64(Drop(s, 1))

\* A translation back that leaves '_' as it is.
RECURSIVE toBase64KeepUnderscore(_)
toBase64KeepUnderscore(s) ==
  IF s = "" THEN ""
  ELSE LET r == Char(s, 1)
       IN (CASE r = "-" -> "+"
             [] OTHER -> r) \o toBase64KeepUnderscore(Drop(s, 1))

\* Lines 244-257: '-' becomes '+', '_' becomes '/', every other rune is kept.
RECURSIVE toBase64(_)
toBase64(s) ==
  IF s = "" THEN ""
  ELSE LET r == Char(s, 1)
       IN (CASE r = "-" -> "+"
             [] r = "_" -> "/"
             [] OTHER -> r) \o toBase64(Drop(s, 1))

\* The alphabet of base64.StdEncoding; the value of a character is its
\* position in it, counted from 0.
StdAlphabet == "ABCDEFGHIJKLMNOPQRSTUVWXYZabcdefghijklmnopqrstuvwxyz0123456789+/"
InStdAlphabet(ch) == \E i \in 1..Len(StdAlphabet) : Char(StdAlphabet, i) = ch
StdValue(ch) == (CHOOSE i \in 1..Len(StdAlphabet) : Char(StdAlphabet, i) = ch) - 1

\* base64.StdEncoding.DecodeString (line 271), on texts without line breaks:
\* <<TRUE, bytes>> or <<FALSE, <<>>>> for corrupt input.  Four characters give
\* three bytes; a last group can end in '=' or '==' and gives two bytes or one;
\* the bits of its last character that belong to no byte are not looked at.
RECURSIVE DecodeString(_)
DecodeString(s) ==
  IF s = "" THEN <<TRUE, <<>>>>
  ELSE IF Len(s) < 4 THEN <<FALSE, <<>>>>
  ELSE LET c1 == Char(s, 1)
           c2 == Char(s, 2)
           c3 == Char(s, 3)
           c4 == Char(s, 4)
           b1 == StdValue(c1) * 4 + StdValue(c2) \div 16
           b2 == (StdValue(c2) % 16) * 16 + StdValue(c3) \div 4
           b3 == (StdValue(c3) % 4) * 64 + StdValue(c4)
           rest == DecodeString(Drop(s, 4))
       IN IF ~InStdAlphabet(c1) \/ ~InStdAlphabet(c2) THEN <<FALSE, <<>>>>
          ELSE IF c3 = "="
            THEN IF c4 = "=" /\ Len(s) = 4 THEN <<TRUE, <<b1>>>> ELSE <<FALSE, <<>>>>
          ELSE IF ~InStdAlphabet(c3) THEN <<FALSE, <<>>>>
          ELSE IF c4 = "="
            THEN IF Len(s) = 4 THEN <<TRUE, <<b1, b2>>>> ELSE <<FALSE, <<>>>>
          ELSE IF ~InStdAlphabet(c4) THEN <<FALSE, <<>>>>
          ELSE IF rest[1] THEN <<TRUE, <<b1, b2, b3>> \o rest[2]>> ELSE <<FALSE, <<>>>>

\* hmac.New(sha256.New, key) (line 277): a key of at most BlockSize bytes is
\* filled up with zero bytes to the block of SHA-256, a longer one is hashed
\* first.  The block of a short key is kept as the key without the zero bytes
\* at its end.
BlockSize == 64

RECURSIVE StripZeros(_)
StripZeros(k) ==
  IF k # <<>> /\ k[Len(k)] = 0 THEN StripZeros(SubSeq(k, 1, Len(k) - 1)) ELSE k

HmacBlock(key) == IF Len(key) > BlockSize THEN <<"sha256", key>> ELSE <<"block", StripZeros(key)>>

\* Lines 277-285: HMAC-SHA256 of the message under the key, in URL-safe
\* base64.  The keyed hash is not computed: two signatures are equal exactly
\* when the key blocks and the messages are.
HmacSignature(key, message) == <<"hmac-sha256", HmacBlock(key), message>>

\* A message that also holds the api key.
L2MessageWithKey(a) == ToString(a.timestamp) \o a.method \o a.path \o a.body \o a.apiKey

\* A message without the body.
L2MessageNoBody(a) == ToString(a.timestamp) \o a.method \o a.path

\* Lines 265-268: fmt.Sprintf("%d%s%s", timestamp, method, path), and the body
\* when it is not empty.
L2Message(a) ==
  LET message == ToString(a.timestamp) \o a.method \o a.path
  IN IF a.body # "" THEN message \o a.body ELSE message

\* A SignL2Auth that signs with an empty key when the secret does not decode.
SignL2AuthEmptyKey(a) ==
  [headers |-> <<[Address |-> a.address,
                  Signature |-> HmacSignature(DecodeString(toBase64(a.secret))[2],
                                              L2Message(a)),
                  Timestamp |-> ToString(a.timestamp),
                  APIKey |-> a.apiKey,
                  Passphrase |-> a.passphrase]>>,
   err |-> "", did |-> <<"hmac">>]

\* SignL2Auth, lines 262-294, on the arguments a.  did lists the keyed hashes
\* the call computed.
SignL2Auth(a) ==
  LET message == L2Message(a)
      secretBytes == DecodeString(toBase64(a.secret))
  IN IF ~secretBytes[1]
       THEN [headers |-> <<>>, err |-> "decode secret from base64", did |-> <<>>]
       ELSE [headers |-> <<[Address |-> a.address,
                            Signature |-> HmacSignature(secretBytes[2], message),
                            Timestamp |-> ToString(a.timestamp),
                            APIKey |-> a.apiKey,
                            Passphrase |-> a.passphrase]>>,
             err |-> "", did |-> <<"hmac">>]

\* What SignL2Auth is called with.  The secrets: two texts of the key <<0>>
\* ("AB==" has a set bit that belongs to no byte), the key <<1>>, the key
\* <<0, 0>>, one key of two bytes in the URL-safe and in the standard
\* alphabet, and three texts that are no base64: padding in the middle, no
\* padding, a character of neither alphabet.  The bodies: none, a JSON text,
\* and a text that continues the path "/order" to "/orders".
L2Secrets == {"AA==", "AB==", "AQ==", "AAA=", "A-A=", "A+A=", "A=A=", "AAA", "A*A="}

L2Bodies == {"", "{}", "s"}

L2Args ==
  [address : {"0xA"}, apiKey : {"k1"}, passphrase : {"p1"},
   timestamp : {StartTime, StartTime + 1}, method : {"GET", "POST"},
   path : {"/order", "/orders"}, body : L2Bodies, secret : L2Secrets]
  \cup
  [address : {"0xB"}, apiKey : {"k2"}, passphrase : {"p2"},
   timestamp : {StartTime, StartTime + 1}, method : {"GET", "POST"},
   path : {"/order", "/orders"}, body : L2Bodies, secret : L2Secrets]

NoCalls == [first |-> <<>>, second |-> <<>>]

\* A call of SignL2Auth, and a second one.
SignL2AuthFirst ==
  /\ l2.first = <<>>
  /\ \E a \in L2Args :
       l2' = [l2 EXCEPT !.first = <<[args |-> a, res |-> SignL2Auth(a)]>>]
  /\ UNCHANGED <<cacheVars, mu, creds, funder, getter, order, trace, served, firstTick,
                 runVars, roundVars, b64, auth, http>>

SignL2AuthSecond ==
  /\ l2.first # <<>> /\ l2.second = <<>>
  /\ \E a \in L2Args :
       l2' = [l2 EXCEPT !.second = <<[args |-> a, res |-> SignL2Auth(a)]>>]
  /\ UNCHANGED <<cacheVars, mu, creds, funder, getter, order, trace, served, firstTick,
                 runVars, roundVars, b64, auth, http>>

\* toURLSafeBase64 applied to the text, then toBase64 applied to the result.
TranslateToURLSafe ==
  /\ Len(b64) = 1
  /\ b64' = Append(b64, toURLSafeBase64(b64[1]))
  /\ UNCHANGED <<cacheVars, mu, creds, funder, getter, order, trace, served, firstTick,
                 runVars, roundVars, l2, auth, http>>

TranslateBack ==
  /\ Len(b64) = 2
  /\ b64' = Append(b64, toBase64(b64[2]))
  /\ UNCHANGED <<cacheVars, mu, creds, funder, getter, order, trace, served, firstTick,
                 runVars, roundVars, l2, auth, http>>

\* common.IsHexAddress (line 85): an optional 0x or 0X, then exactly
\* AddressDigits hex digits (40 in go-ethereum; the addresses of this model
\* have one digit).
AddressDigits == 1
HexDigits == "0123456789abcdefABCDEF"
IsHexDigit(ch) == \E i \in 1..Len(HexDigits) : Char(HexDigits, i) = ch
Has0xPrefix(s) == Len(s) >= 2 /\ Char(s, 1) = "0" /\ Char(s, 2) \in {"x", "X"}
Digits(s) == IF Has0xPrefix(s) THEN Drop(s, 2) ELSE s
IsHexAddress(s) ==
  /\ Len(Digits(s)) = AddressDigits
  /\ \A i \in 1..Len(Digits(s)) : IsHexDigit(Char(Digits(s), i))

\* The steps of SignL1Auth that hash or sign (lines 131, 137, 145, 148).
CryptoSteps == <<"hash_domain", "hash_message", "keccak256", "sign">>

\* A SignL1Auth that signs whatever address it is given.
SignL1AuthUnchecked(address, timestamp, nonce, signs) ==
  [headers |-> <<[Address |-> address,
                  Signature |-> <<"eip712", address, ToString(timestamp),
                                  IF nonce = <<>> THEN 0 ELSE nonce[1]>>,
                  Timestamp |-> ToString(timestamp),
                  Nonce |-> ToString(IF nonce = <<>> THEN 0 ELSE nonce[1])]>>,
   err |-> "", did |-> CryptoSteps]

\* SignL1Auth, lines 79-174: a nil nonce (<<>>) is 0; signs tells whether
\* crypto.Sign succeeds.  The EIP-712 hash and the signature are not computed:
\* the signature stands for the signed fields.  did lists the hashing and
\* signing steps the call went through.
SignL1Auth(address, timestamp, nonce, signs) ==
  LET n == IF nonce = <<>> THEN 0 ELSE nonce[1] IN
  IF ~IsHexAddress(address)
    THEN [headers |-> <<>>, err |-> "invalid address format", did |-> <<>>]
  ELSE IF ~signs
    THEN [headers |-> <<>>, err |-> "sign", did |-> CryptoSteps]
  ELSE [headers |-> <<[Address |-> Checksum(address),
                       Signature |-> <<"eip712", Checksum(address), ToString(timestamp), n>>,
                       Timestamp |-> ToString(timestamp),
                       Nonce |-> ToString(n)]>>,
        err |-> "", did |-> CryptoSteps]

\* What a caller passes to SignL1Auth as the address.
L1Addresses == {"0xA", "0xa", "a", "0XA", "", "0x", "0xAA", "0xG", "xA"}

IdleAuth ==
  [fn |-> "none", pc |-> "idle", address |-> "", headers |-> <<>>, body |-> <<>>,
   ret |-> <<>>, err |-> "", before |-> NoCreds]

AuthIdle(c) == c \in callers /\ Idle(c) /\ auth[c].pc \in {"idle", "ret"}

\* A direct call of SignL1Auth.
CallSignL1Auth(c) ==
  /\ AuthIdle(c)
  /\ \E address \in L1Addresses, nonce \in {<<>>, <<0>>, <<1>>}, signs \in BOOLEAN :
       LET r == SignL1Auth(address, clock, nonce, signs)
       IN /\ auth' = [auth EXCEPT ![c] =
                        [IdleAuth EXCEPT !.fn = "SignL1Auth", !.pc = "ret",
                                         !.address = address, !.headers = r.headers,
                                         !.err = r.err, !.before = creds]]
          /\ trace' = [trace EXCEPT ![c] = r.did]
  /\ UNCHANGED <<cacheVars, mu, creds, funder, getter, order, served, firstTick,
                 runVars, roundVars, l2, b64, http>>

\* An assignment that keeps the stored value where the new one is empty.
SetAPICredentialsNonEmpty(key, secret, passphrase) ==
  creds' = [apiKey |-> IF key = "" THEN creds.apiKey ELSE key,
            apiSecret |-> IF secret = "" THEN creds.apiSecret ELSE secret,
            apiPassphrase |-> IF passphrase = "" THEN creds.apiPassphrase ELSE passphrase]

\* Client.SetAPICredentials, part_005 lines 225-229.
SetAPICredentials(key, secret, passphrase) ==
  creds' = [apiKey |-> key, apiSecret |-> secret, apiPassphrase |-> passphrase]

\* The credentials a caller or the exchange can give.
CredentialSets ==
  {[Key |-> "k2", Secret |-> "s2", Passphrase |-> "p2"],
   [Key |-> "k3", Secret |-> "", Passphrase |-> ""]}

\* A direct call of SetAPICredentials.
CallSetAPICredentials(c) ==
  /\ AuthIdle(c)
  /\ \E k \in CredentialSets :
       /\ SetAPICredentials(k.Key, k.Secret, k.Passphrase)
       /\ auth' = [auth EXCEPT ![c] =
                     [IdleAuth EXCEPT !.fn = "SetAPICredentials", !.pc = "ret",
                                      !.ret = <<k>>, !.before = creds]]
  /\ trace' = [trace EXCEPT ![c] = <<>>]
  /\ UNCHANGED <<cacheVars, mu, funder, getter, order, served, firstTick,
                 runVars, roundVars, l2, b64, http>>

Registrations == {"CreateAPICredentials", "DeriveAPICredentials"}

\* CreateAPICredentials (part_002 lines 61-104) or DeriveAPICredentials (lines
\* 109-144) is called.
CallRegistration(c) ==
  /\ AuthIdle(c)
  /\ \E fn \in Registrations :
       auth' = [auth EXCEPT ![c] =
                  [IdleAuth EXCEPT !.fn = fn, !.pc = "sign", !.before = creds]]
  /\ trace' = [trace EXCEPT ![c] = <<>>]
  /\ UNCHANGED <<cacheVars, mu, creds, funder, getter, order, served, firstTick,
                 runVars, roundVars, l2, b64, http>>

AuthFail(c, msg) == auth' = [auth EXCEPT ![c].pc = "ret", ![c].err = msg]

\* Lines 65-73 and 113-121: the L1 headers for the client's own address.
RegistrationSign(c) ==
  LET f == auth[c] IN
  /\ f.fn \in Registrations /\ f.pc = "sign"
  /\ \E signs \in BOOLEAN :
       LET r == SignL1Auth(SignerAddress, clock, <<0>>, signs)
       IN /\ IF r.err # ""
               THEN AuthFail(c, "sign L1 auth")
               ELSE auth' = [auth EXCEPT ![c].pc = "request", ![c].address = SignerAddress,
                                         ![c].headers = r.headers]
          /\ trace' = [trace EXCEPT ![c] = @ \o r.did]
  /\ UNCHANGED <<cacheVars, mu, creds, funder, getter, order, served, firstTick,
                 runVars, roundVars, l2, b64, http>>

\* What the exchange can answer: a JSON object with some of the three fields
\* (a field that is missing decodes to ""), or a body that is no JSON object.
RegistrationBodies ==
  {[json |-> TRUE, creds |-> k] : k \in CredentialSets}
  \cup {[json |-> FALSE, creds |-> [Key |-> "", Secret |-> "", Passphrase |-> ""]]}

\* Lines 84-87 and 124-127: POST /auth/api-key or GET /auth/derive-api-key.
RegistrationRequest(c) ==
  LET f == auth[c] IN
  /\ f.fn \in Registrations /\ f.pc = "request"
  /\ \/ AuthFail(c, IF f.fn = "CreateAPICredentials" THEN "create API credentials"
                                                     ELSE "derive API credentials")
     \/ \E body \in RegistrationBodies :
          auth' = [auth EXCEPT ![c].pc = "decode", ![c].body = <<body>>]
  /\ Log(c, "request")
  /\ UNCHANGED <<cacheVars, mu, creds, funder, getter, order, served, firstTick,
                 runVars, roundVars, l2, b64, http>>

\* Lines 89-103 and 129-143: the answer decoded and handed to SetAPICredentials.
RegistrationDecode(c) ==
  LET f == auth[c]
      body == f.body[1]
  IN
  /\ f.fn \in Registrations /\ f.pc = "decode"
  /\ IF ~body.json
       THEN AuthFail(c, "unmarshal response") /\ UNCHANGED creds
       ELSE /\ SetAPICredentials(body.creds.Key, body.creds.Secret, body.creds.Passphrase)
            /\ auth' = [auth EXCEPT ![c].pc = "ret", ![c].ret = <<body.creds>>]
  /\ UNCHANGED <<cacheVars, mu, funder, getter, order, trace, served, firstTick,
                 runVars, roundVars, l2, b64, http>>

AuthStep(c) ==
  \/ CallSignL1Auth(c)
  \/ CallSetAPICredentials(c)
  \/ CallRegistration(c)
  \/ RegistrationSign(c)
  \/ RegistrationRequest(c)
  \/ RegistrationDecode(c)

(***************************************************************************)
(* The L2-authenticated operations of OrdersAPI, api/orders.go:46-432, and *)
(* Client.doRequest, part_005:118-171.                                     *)
(***************************************************************************)
\* url.QueryEscape on the texts of this model: '#' is written %23.
RECURSIVE QueryEscape(_)
QueryEscape(s) ==
  IF s = "" THEN ""
  ELSE (IF Char(s, 1) = "#" THEN "%23" ELSE Char(s, 1)) \o QueryEscape(Drop(s, 1))

\* url.Values.Encode: key=value joined by '&', the keys in ascending order
\* (pairs is given in that order), the values escaped.
RECURSIVE Encode(_)
Encode(pairs) ==
  IF pairs = <<>> THEN ""
  ELSE pairs[1][1] \o "=" \o QueryEscape(pairs[1][2])
         \o (IF Len(pairs) > 1 THEN "&" ELSE "") \o Encode(Tail(pairs))

\* The pairs whose value was set (a field that is "" is not set).
SetPairs(pairs) == SelectSeq(pairs, LAMBDA kv : kv[2] # "")

\* json.Marshal of a string, of a []string (nil gives null) and of a
\* map[string]interface{} with string values (keys in ascending order; pairs
\* is given in that order).
Quote(s) == "\"" \o s \o "\""

RECURSIVE MarshalItems(_)
MarshalItems(ids) ==
  IF ids = <<>> THEN ""
  ELSE Quote(ids[1]) \o (IF Len(ids) > 1 THEN "," ELSE "") \o MarshalItems(Tail(ids))

MarshalStrings(list) == IF list.nil THEN "null" ELSE "[" \o MarshalItems(list.ids) \o "]"

RECURSIVE MarshalPairs(_)
MarshalPairs(pairs) ==
  IF pairs = <<>> THEN ""
  ELSE Quote(pairs[1][1]) \o ":" \o Quote(pairs[1][2])
         \o (IF Len(pairs) > 1 THEN "," ELSE "") \o MarshalPairs(Tail(pairs))

\* json.Marshal of the request bodies of the operations: the CreateOrderRequest
\* (models/order.go:61-65; the signed order stands for its own JSON text), the
\* maps of CancelOrder, CancelMarketOrders and CheckOrdersScoring, the slice
\* of CancelOrders.
Marshal(v) ==
  CASE v.kind = "CreateOrderRequest" ->
         "{\"order\":" \o v.order \o ",\"owner\":" \o Quote(v.owner)
           \o ",\"orderType\":" \o Quote(v.orderType) \o "}"
    [] v.kind = "map" -> "{" \o MarshalPairs(v.pairs) \o "}"
    [] v.kind = "orderIds" -> "{\"orderIds\":" \o MarshalStrings(v.list) \o "}"
    [] v.kind = "slice" -> MarshalStrings(v.list)

\* What the operations are called with: order ids (the second holds a
\* character that ends the path of a URL), lists of them, query and market
\* parameters (nil, or the three fields, "" when not given).
OrderIDs == {"0x1", "a#b"}
NilList == [nil |-> TRUE, ids |-> <<>>]
OrderIDLists == {NilList, [nil |-> FALSE, ids |-> <<>>], [nil |-> FALSE, ids |-> <<"0x1", "a#b">>]}
NilFilter == [nil |-> TRUE, ID |-> "", Market |-> "", AssetID |-> ""]
Filters ==
  {NilFilter} \cup
  [nil : {FALSE}, ID : {"", "a#b"}, Market : {"", "m1"}, AssetID : {"", "t1"}]

\* What an operation hands to generateL2Headers (method, endpoint, signBody)
\* and to doRequest (method, endpoint, body: <<>> for nil, else the value that
\* doRequest marshals).
Prepared(op, method, endpoint, signBody, body) ==
  [op |-> op, method |-> method, endpoint |-> endpoint, signBody |-> signBody, body |-> body]

WithBody(op, method, endpoint, v) == Prepared(op, method, endpoint, Marshal(v), <<v>>)

\* Lines 141-151.
GetOrder(orderID) == Prepared("GetOrder", "GET", "/orders/" \o orderID, "", <<>>)

\* Lines 174-203.
ActiveOrdersQuery(params) ==
  IF params.nil THEN <<>>
  ELSE SetPairs(<<<<"asset_id", params.AssetID>>, <<"id", params.ID>>,
                  <<"market", params.Market>>>>)

GetActiveOrders(params) ==
  Prepared("GetActiveOrders", "GET",
           IF ActiveOrdersQuery(params) # <<>>
             THEN "/data/orders" \o "?" \o Encode(ActiveOrdersQuery(params))
             ELSE "/data/orders",
           "", <<>>)

\* Lines 220-241.
CancelOrder(orderID) ==
  WithBody("CancelOrder", "DELETE", "/order",
           [kind |-> "map", pairs |-> <<<<"orderID", orderID>>>>])

\* Lines 257-276.
CancelOrders(orderIDs) ==
  WithBody("CancelOrders", "DELETE", "/orders", [kind |-> "slice", list |-> orderIDs])

\* Lines 292-302.
CancelAllOrders == Prepared("CancelAllOrders", "DELETE", "/cancel-all", "", <<>>)

\* Lines 318-353: the body is left out when neither field is given.
MarketOrdersBody(params) ==
  IF params.nil THEN <<>>
  ELSE SetPairs(<<<<"asset_id", params.AssetID>>, <<"market", params.Market>>>>)

CancelMarketOrders(params) ==
  IF MarketOrdersBody(params) # <<>>
    THEN WithBody("CancelMarketOrders", "DELETE", "/cancel-market-orders",
                  [kind |-> "map", pairs |-> MarketOrdersBody(params)])
    ELSE Prepared("CancelMarketOrders", "DELETE", "/cancel-market-orders", "", <<>>)

\* Lines 369-384.
CheckOrderScoring(orderID) ==
  Prepared("CheckOrderScoring", "GET",
           "/order-scoring" \o "?" \o Encode(<<<<"order_id", orderID>>>>), "", <<>>)

\* Lines 400-421.
CheckOrdersScoring(orderIDs) ==
  WithBody("CheckOrdersScoring", "POST", "/orders-scoring",
           [kind |-> "orderIds", list |-> orderIDs])

\* Lines 96-107: the request of CreateOrder for an owner.
CreateOrderRequest(owner) ==
  WithBody("CreateOrder", "POST", "/order",
           [kind |-> "CreateOrderRequest", order |-> "{}", owner |-> owner,
            orderType |-> "GTC"])

\* The calls of the eight operations that take no api key.
L2Requests ==
  {GetOrder(id) : id \in OrderIDs}
  \cup {GetActiveOrders(f) : f \in Filters}
  \cup {CancelOrder(id) : id \in OrderIDs}
  \cup {CancelOrders(ids) : ids \in OrderIDLists}
  \cup {CancelAllOrders}
  \cup {CancelMarketOrders(f) : f \in Filters}
  \cup {CheckOrderScoring(id) : id \in OrderIDs}
  \cup {CheckOrdersScoring(ids) : ids \in OrderIDLists}

\* The apiKey argument of CreateOrder: none, the key of the client, another.
OwnerArguments == {"", "k1", "k9"}

\* part_005 lines 128-129 and the request line net/http writes: the URL is
\* parsed, what follows a '#' is its fragment, and a fragment is not sent.
RECURSIVE RequestURI(_)
RequestURI(u) ==
  IF u = "" \/ Char(u, 1) = "#" THEN "" ELSE Char(u, 1) \o RequestURI(Drop(u, 1))

\* A request line that is the endpoint as it was given.
RequestURIVerbatim(u) == u

IdleHttp ==
  [op |-> "none", pc |-> "idle", arg |-> "", method |-> "", endpoint |-> "",
   signBody |-> "", body |-> <<>>, owner |-> "", apiKey |-> "", secret |-> "",
   passphrase |-> "", signed |-> <<>>, headers |-> <<>>, sent |-> <<>>, err |-> ""]

NoOperation == http = [c \in Procs |-> IdleHttp]

\* A caller is between two calls of the client.
Free(c) ==
  /\ c \in callers
  /\ Idle(c)
  /\ auth[c].pc \in {"idle", "ret"}
  /\ http[c].pc \in {"idle", "ret"}

HttpFail(c, msg) == http' = [http EXCEPT ![c].pc = "ret", ![c].err = msg]

\* A check that lets through credentials of which one part is there.
MissingBoth(secret, passphrase) == secret = "" /\ passphrase = ""

\* Lines 54 and 92: secret == "" || passphrase == "".
MissingPart(secret, passphrase) == secret = "" \/ passphrase = ""

\* One of the eight operations is called: it builds its endpoint and body and
\* calls generateL2Headers.
CallL2Operation(c) ==
  /\ Free(c)
  /\ \E r \in L2Requests :
       http' = [http EXCEPT ![c] =
                  [IdleHttp EXCEPT !.op = r.op, !.pc = "key", !.method = r.method,
                                   !.endpoint = r.endpoint, !.signBody = r.signBody,
                                   !.body = r.body]]
  /\ trace' = [trace EXCEPT ![c] = <<>>]
  /\ UNCHANGED <<cacheVars, mu, creds, funder, getter, order, served, firstTick,
                 runVars, roundVars, l2, b64, auth>>

\* CreateOrder is called (line 78).
CallCreateOrder(c) ==
  /\ Free(c)
  /\ \E apiKey \in OwnerArguments :
       http' = [http EXCEPT ![c] =
                  [IdleHttp EXCEPT !.op = "CreateOrder", !.pc = "owner", !.arg = apiKey]]
  /\ trace' = [trace EXCEPT ![c] = <<>>]
  /\ UNCHANGED <<cacheVars, mu, creds, funder, getter, order, served, firstTick,
                 runVars, roundVars, l2, b64, auth>>

\* Lines 82-87: the owner is the argument, or the api key of the client.
CreateOrderOwner(c) ==
  LET f == http[c] IN
  /\ f.op = "CreateOrder" /\ f.pc = "owner"
  /\ IF f.arg # ""
       THEN /\ http' = [http EXCEPT ![c].pc = "own_secret", ![c].owner = f.arg]
            /\ UNCHANGED trace
       ELSE /\ IF creds.apiKey = ""
                 THEN HttpFail(c, "API key is required for creating orders")
                 ELSE http' = [http EXCEPT ![c].pc = "own_secret", ![c].owner = creds.apiKey]
            /\ Log(c, "own_key")
  /\ UNCHANGED <<cacheVars, mu, creds, funder, getter, order, served, firstTick,
                 runVars, roundVars, l2, b64, auth>>

\* Line 90: the secret is read.
CreateOrderSecret(c) ==
  LET f == http[c] IN
  /\ f.op = "CreateOrder" /\ f.pc = "own_secret"
  /\ http' = [http EXCEPT ![c].pc = "own_pass", ![c].secret = creds.apiSecret]
  /\ Log(c, "own_secret")
  /\ UNCHANGED <<cacheVars, mu, creds, funder, getter, order, served, firstTick,
                 runVars, roundVars, l2, b64, auth>>

\* Lines 91-110: the passphrase is read, the two are checked, the request is
\* built and marshalled, generateL2Headers is called.
CreateOrderPassphrase(c) ==
  LET f == http[c]
      r == CreateOrderRequest(f.owner)
  IN
  /\ f.op = "CreateOrder" /\ f.pc = "own_pass"
  /\ IF MissingPart(f.secret, creds.apiPassphrase)
       THEN HttpFail(c, "API secret and passphrase are required for creating orders")
       ELSE http' = [http EXCEPT ![c].pc = "key", ![c].method = r.method,
                                 ![c].endpoint = r.endpoint, ![c].signBody = r.signBody,
                                 ![c].body = r.body, ![c].secret = ""]
  /\ Log(c, "own_pass")
  /\ UNCHANGED <<cacheVars, mu, creds, funder, getter, order, served, firstTick,
                 runVars, roundVars, l2, b64, auth>>

\* generateL2Headers, lines 47-50: the api key is read and checked.
GenerateL2HeadersKey(c) ==
  LET f == http[c] IN
  /\ f.pc = "key"
  /\ IF creds.apiKey = ""
       THEN HttpFail(c, "generate L2 headers: API key is required")
       ELSE http' = [http EXCEPT ![c].pc = "secret", ![c].apiKey = creds.apiKey]
  /\ Log(c, "key")
  /\ UNCHANGED <<cacheVars, mu, creds, funder, getter, order, served, firstTick,
                 runVars, roundVars, l2, b64, auth>>

\* generateL2Headers, line 52: the secret is read.
GenerateL2HeadersSecret(c) ==
  /\ http[c].pc = "secret"
  /\ http' = [http EXCEPT ![c].pc = "pass", ![c].secret = creds.apiSecret]
  /\ Log(c, "secret")
  /\ UNCHANGED <<cacheVars, mu, creds, funder, getter, order, served, firstTick,
                 runVars, roundVars, l2, b64, auth>>

\* generateL2Headers, lines 53-56: the passphrase is read, the two are checked.
GenerateL2HeadersPassphrase(c) ==
  LET f == http[c] IN
  /\ f.pc = "pass"
  /\ IF MissingPart(f.secret, creds.apiPassphrase)
       THEN HttpFail(c, "generate L2 headers: API secret and passphrase are required")
       ELSE http' = [http EXCEPT ![c].pc = "sign", ![c].passphrase = creds.apiPassphrase]
  /\ Log(c, "pass")
  /\ UNCHANGED <<cacheVars, mu, creds, funder, getter, order, served, firstTick,
                 runVars, roundVars, l2, b64, auth>>

\* The arguments generateL2Headers hands to SignL2Auth (lines 58-62).
SignArguments(f, now) ==
  [address |-> SignerAddress, method |-> f.method, path |-> f.endpoint,
   body |-> f.signBody, timestamp |-> now, apiKey |-> f.apiKey,
   secret |-> f.secret, passphrase |-> f.passphrase]

Signed(f, r) ==
  IF r.err # ""
    THEN [f EXCEPT !.pc = "ret", !.err = "generate L2 headers: sign L2 auth"]
    ELSE [f EXCEPT !.pc = "send", !.headers = r.headers,
                   !.signed = <<[method |-> f.method, path |-> f.endpoint,
                                 body |-> f.signBody]>>]

\* generateL2Headers, lines 58-67: the signature.
GenerateL2HeadersSign(c) ==
  /\ http[c].pc = "sign"
  /\ http' = [http EXCEPT ![c] = Signed(http[c], SignL2Auth(SignArguments(http[c], clock)))]
  /\ Log(c, "sign")
  /\ UNCHANGED <<cacheVars, mu, creds, funder, getter, order, served, firstTick,
                 runVars, roundVars, l2, b64, auth>>

\* doRequest, part_005 lines 118-171: the body is marshalled when there is
\* one, the request is sent with the L2 headers; the exchange answers, or not.
\* Then the operation decodes the answer.
DoRequest(c) ==
  LET f == http[c] IN
  /\ f.pc = "send"
  /\ \E e \in {"", "execute request", "API error", "unmarshal response"} :
       http' = [http EXCEPT
                  ![c].pc = "ret",
                  ![c].err = e,
                  ![c].sent = <<[method |-> f.method,
                                 path |-> RequestURI(f.endpoint),
                                 body |-> IF f.body = <<>> THEN <<>>
                                          ELSE <<Marshal(f.body[1])>>,
                                 headers |-> f.headers[1]]>>]
  /\ Log(c, "send")
  /\ UNCHANGED <<cacheVars, mu, creds, funder, getter, order, served, firstTick,
                 runVars, roundVars, l2, b64, auth>>

\* Two credential sets the exchange has registered, with secrets in base64, and
\* the fields of the client that hold one.
L2CredentialSets ==
  {[Key |-> "k1", Secret |-> "AQ==", Passphrase |-> "p1"],
   [Key |-> "k2", Secret |-> "A-A=", Passphrase |-> "p2"]}

ClientCreds(k) == [apiKey |-> k.Key, apiSecret |-> k.Secret, apiPassphrase |-> k.Passphrase]

\* SetAPICredentials (part_005 lines 225-229) assignment by assignment, as
\* another goroutine sees it: the call, then lines 226, 227 and 228.
BeginSetAPICredentials(c) ==
  /\ Free(c)
  /\ \E k \in L2CredentialSets :
       auth' = [auth EXCEPT ![c] =
                  [IdleAuth EXCEPT !.fn = "SetAPICredentials", !.pc = "set_key",
                                   !.ret = <<k>>, !.before = creds]]
  /\ trace' = [trace EXCEPT ![c] = <<>>]
  /\ UNCHANGED <<cacheVars, mu, creds, funder, getter, order, served, firstTick,
                 runVars, roundVars, l2, b64, http>>

SetAPIKey(c) ==
  /\ auth[c].pc = "set_key"
  /\ creds' = [creds EXCEPT !.apiKey = auth[c].ret[1].Key]
  /\ auth' = [auth EXCEPT ![c].pc = "set_secret"]
  /\ UNCHANGED <<cacheVars, mu, funder, getter, order, trace, served, firstTick,
                 runVars, roundVars, l2, b64, http>>

SetAPISecret(c) ==
  /\ auth[c].pc = "set_secret"
  /\ creds' = [creds EXCEPT !.apiSecret = auth[c].ret[1].Secret]
  /\ auth' = [auth EXCEPT ![c].pc = "set_pass"]
  /\ UNCHANGED <<cacheVars, mu, funder, getter, order, trace, served, firstTick,
                 runVars, roundVars, l2, b64, http>>

SetAPIPassphrase(c) ==
  /\ auth[c].pc = "set_pass"
  /\ creds' = [creds EXCEPT !.apiPassphrase = auth[c].ret[1].Passphrase]
  /\ auth' = [auth EXCEPT ![c].pc = "ret"]
  /\ UNCHANGED <<cacheVars, mu, funder, getter, order, trace, served, firstTick,
                 runVars, roundVars, l2, b64, http>>

L2Step(c) ==
  \/ CallL2Operation(c)
  \/ CallCreateOrder(c)
  \/ CreateOrderOwner(c)
  \/ CreateOrderSecret(c)
  \/ CreateOrderPassphrase(c)
  \/ GenerateL2HeadersKey(c)
  \/ GenerateL2HeadersSecret(c)
  \/ GenerateL2HeadersPassphrase(c)
  \/ GenerateL2HeadersSign(c)
  \/ DoRequest(c)

SetStep(c) ==
  \/ BeginSetAPICredentials(c)
  \/ SetAPIKey(c)
  \/ SetAPISecret(c)
  \/ SetAPIPassphrase(c)

(***************************************************************************)
(* Specifications.                                                         *)
(***************************************************************************)
\* NewOrdersAPI (lines 36-43): three empty maps and an unlocked mutex.
InitMachine ==
  /\ tickSizes = EmptyMap
  /\ feeRates = EmptyMap
  /\ negRisks = EmptyMap
  /\ mu = [readers |-> {}, writer |-> NoProc]
  /\ getter = [c \in Procs |-> IdleGetter]
  /\ order = [c \in Procs |-> IdleOrder]
  /\ trace = [c \in Procs |-> <<>>]
  /\ served = [f \in {"tick", "fee", "neg"} |-> [t \in Tokens |-> {}]]
  /\ firstTick = [t \in Tokens |-> [n |-> 0, ret |-> "", ok |-> 0, okRet |-> ""]]

\* No rounding experiment in this run.
NoRounding == rp = <<0, 0>> /\ rt = "" /\ rr = <<>>

\* No call of the signer or of the registration in this run.
NoSigning ==
  /\ l2 = NoCalls /\ b64 = <<>> /\ auth = [c \in Procs |-> IdleAuth]
  /\ NoOperation

OrderInputs(toks, cases, ticks, negs) ==
  {[params |-> [TokenID |-> t, Price |-> k.intent.Price, Side |-> k.Side,
                Size |-> k.intent.Size],
    config |-> [TickSize |-> ts, NegRisk |-> n],
    orderType |-> k.orderType] :
     t \in toks, k \in cases, ts \in ticks, n \in negs}

\* Two concurrent callers on one token.  Both call the getters; the first also
\* calls CreateAndPostOrder, with a valid intent and no overrides, so that the
\* call goes through all three getters.
Init ==
  /\ InitMachine
  /\ NoRounding
  /\ NoSigning
  /\ creds = GoodCreds
  /\ funder = ""
  /\ callers = Procs
  /\ tokens = {"t1"}
  /\ clock = StartTime
  /\ inputs = [c \in Procs |->
                IF c = "c1"
                  THEN OrderInputs(tokens,
                                   {[intent |-> ValidIntent, Side |-> 0, orderType |-> "GTC"]},
                                   {""}, {<<>>})
                  ELSE {}]

\* One caller on two tokens (a sequential run of getter calls).
SeqInit ==
  /\ InitMachine
  /\ NoRounding
  /\ NoSigning
  /\ creds = GoodCreds
  /\ funder = ""
  /\ callers = {"c1"}
  /\ tokens = Tokens
  /\ clock = StartTime
  /\ inputs = [c \in Procs |-> {}]

\* One caller on one token, every input of CreateAndPostOrder, with and without
\* credentials.
OrderInit ==
  /\ InitMachine
  /\ NoRounding
  /\ NoSigning
  /\ creds \in {GoodCreds, NoCreds}
  /\ funder = ""
  /\ callers = {"c1"}
  /\ tokens = {"t1"}
  /\ clock = StartTime
  /\ inputs = [c \in Procs |->
                OrderInputs(tokens, Cases, {"", "0.01", "abc"},
                            {<<>>, <<TRUE>>, <<FALSE>>})]

\* The clock advances by a second, at most MaxTicks times in a run.
MaxTicks == 1

Tick ==
  /\ clock < StartTime + MaxTicks
  /\ clock' = clock + 1
  /\ UNCHANGED <<cacheVars, mu, creds, funder, getter, order, trace, served, firstTick,
                 callers, tokens, inputs, roundVars, signVars>>

\* One caller on one token, with and without a funder (configured in lower
\* case), the neg-risk flag given or not, the tick size given, or fetched for
\* one of the orders, while time passes.
PayloadInit ==
  /\ InitMachine
  /\ NoRounding
  /\ NoSigning
  /\ creds = GoodCreds
  /\ funder \in {"", "0xf"}
  /\ callers = {"c1"}
  /\ tokens = {"t1"}
  /\ clock = StartTime
  /\ inputs = [c \in Procs |->
                OrderInputs(tokens, PayloadCases, {"0.01"}, {<<>>, <<TRUE>>, <<FALSE>>})
                  \cup OrderInputs(tokens, {k \in PayloadCases : k.orderType = "GTC"},
                                   {""}, {<<TRUE>>})]

Next ==
  \E c \in Procs :
    \/ CallGetter(c)
    \/ GetterStep(c)
    \/ CallCreateAndPostOrder(c)
    \/ OrderStep(c)

\* The same, while time passes.
PayloadNext == Next \/ Tick

\* The getters alone.
CacheNext == \E c \in Procs : CallGetter(c) \/ GetterStep(c)

(***************************************************************************)
(* roundToTickSize on its own: a price given as a decimal of three places   *)
(* (rp holds its digits and places), a tick size text (rt), and the results *)
(* of rounding the price and then the result again (rr).                    *)
(***************************************************************************)
MaxMilli == 80
MaxRounds == 2

RoundPrices == {<<k, 3>> : k \in (-MaxMilli)..MaxMilli}

\* The tick sizes of the exchange, and one of 17 decimal places.
RoundTicks == {"0.1", "0.01", "0.001", "0.0001", "0.00000000000000001"}

RoundInit ==
  /\ InitMachine
  /\ creds = GoodCreds
  /\ funder = ""
  /\ callers = {}
  /\ tokens = {}
  /\ clock = StartTime
  /\ inputs = [c \in Procs |-> {}]
  /\ NoSigning
  /\ rp \in RoundPrices
  /\ rt \in RoundTicks
  /\ rr = <<>>

\* roundToTickSize applied to the price, then to its own result.
Round ==
  /\ Len(rr) < MaxRounds
  /\ rr' = Append(rr, roundToTickSize(IF rr = <<>> THEN Dec(rp[1], rp[2]) ELSE rr[Len(rr)],
                                      ParseFloat(rt)))
  /\ UNCHANGED <<cacheVars, mu, creds, funder, getter, order, trace, served, firstTick,
                 runVars, rp, rt, signVars>>

RoundNext == Round

\* One caller on one token; a call that failed may be repeated at once.
RetryInit ==
  /\ InitMachine
  /\ NoRounding
  /\ NoSigning
  /\ creds = GoodCreds
  /\ funder = ""
  /\ callers = {"c1"}
  /\ tokens = {"t1"}
  /\ clock = StartTime
  /\ inputs = [c \in Procs |-> {}]

RetryNext == \E c \in Procs : CallGetter(c) \/ RetryGetter(c) \/ GetterStep(c)

\* Two callers on one token, getter calls only.
FairInit ==
  /\ InitMachine
  /\ NoRounding
  /\ NoSigning
  /\ creds = GoodCreds
  /\ funder = ""
  /\ callers = Procs
  /\ tokens = {"t1"}
  /\ clock = StartTime
  /\ inputs = [c \in Procs |-> {}]

Spec == Init /\ [][Next]_vars
SeqSpec == SeqInit /\ [][CacheNext]_vars
RetrySpec == RetryInit /\ [][RetryNext]_vars

\* Fair scheduling of the getters: a caller inside a getter call runs on, its
\* requests return, and sync.RWMutex lets a caller that waits for the lock
\* have it once it has been free often enough (a waiting Lock holds back new
\* readers, an Unlock admits the waiting readers).
FairSpec == FairInit /\ [][CacheNext]_vars /\ \A c \in Procs : SF_vars(GetterStep(c))
OrderSpec == OrderInit /\ [][Next]_vars
RoundSpec == RoundInit /\ [][RoundNext]_vars
PayloadSpec == PayloadInit /\ [][PayloadNext]_vars

(***************************************************************************)
(* The signer and the registration on their own.                           *)
(***************************************************************************)
IdleClient ==
  /\ InitMachine
  /\ NoRounding
  /\ funder = ""
  /\ tokens = {}
  /\ clock = StartTime
  /\ inputs = [c \in Procs |-> {}]

\* Two calls of SignL2Auth.
L2Init ==
  /\ IdleClient
  /\ creds = GoodCreds
  /\ callers = {}
  /\ l2 = NoCalls /\ b64 = <<>> /\ auth = [c \in Procs |-> IdleAuth]
  /\ NoOperation

L2Next == SignL2AuthFirst \/ SignL2AuthSecond

\* The texts of at most MaxLen characters over the two characters that differ
\* between the alphabets, in both forms, a letter and the padding character.
MaxLen == 4
B64Chars == {"A", "+", "/", "-", "_", "="}

RECURSIVE Texts(_)
Texts(n) == IF n = 0 THEN {""} ELSE {""} \cup {t \o ch : t \in Texts(n - 1), ch \in B64Chars}

B64Init ==
  /\ IdleClient
  /\ creds = GoodCreds
  /\ callers = {}
  /\ l2 = NoCalls /\ auth = [c \in Procs |-> IdleAuth]
  /\ NoOperation
  /\ b64 \in {<<t>> : t \in Texts(MaxLen)}

B64Next == TranslateToURLSafe \/ TranslateBack

\* One caller that signs and registers, on a client with or without credentials.
AuthInit ==
  /\ IdleClient
  /\ creds \in {GoodCreds, NoCreds}
  /\ callers = {"c1"}
  /\ NoSigning

AuthNext == \E c \in Procs : AuthStep(c)

\* One caller of the L2-authenticated operations, on a client with full
\* credentials, with none, with one part missing, or with a secret that is no
\* base64.
OpsCreds ==
  LET full == ClientCreds(CHOOSE k \in L2CredentialSets : k.Key = "k1")
  IN {full, NoCreds,
      [full EXCEPT !.apiKey = ""], [full EXCEPT !.apiSecret = ""],
      [full EXCEPT !.apiPassphrase = ""], [full EXCEPT !.apiSecret = "A=A="]}

OpsInit ==
  /\ IdleClient
  /\ creds \in OpsCreds
  /\ callers = {"c1"}
  /\ NoSigning

OpsNext == \E c \in Procs : L2Step(c)

\* A caller of the operations and, concurrently, a caller of
\* SetAPICredentials, on a client that starts with the first credential set.
Operators == {"c1"}
Setters == {"c2"}

ConcInit ==
  /\ IdleClient
  /\ creds = ClientCreds(CHOOSE k \in L2CredentialSets : k.Key = "k1")
  /\ callers = Procs
  /\ NoSigning

ConcNext ==
  \/ \E c \in Operators : L2Step(c)
  \/ \E c \in Setters : SetStep(c)

L2Spec == L2Init /\ [][L2Next]_vars
B64Spec == B64Init /\ [][B64Next]_vars
AuthSpec == AuthInit /\ [][AuthNext]_vars
OpsSpec == OpsInit /\ [][OpsNext]_vars
ConcSpec == ConcInit /\ [][ConcNext]_vars

(***************************************************************************)
(* Properties.                                                             *)
(***************************************************************************)
\* The steps of CreateAndPostOrder in the order of the source: tick size (1),
\* rounding and amounts (2), fee rate (3), neg-risk (4), signing (5),
\* submission (6); the step an event of the history belongs to, the event that
\* ends a step, and the step an error comes from.
Stage(ev) ==
  CASE ev \in TickEvents \cup {"tick_resolved"} -> 1
    [] ev = "round" -> 2
    [] ev \in FeeEvents \cup {"fee_resolved"} -> 3
    [] ev \in NegEvents \cup {"neg_resolved"} -> 4
    [] ev = "sign" -> 5
    [] ev = "post" -> 6

Done == <<"tick_resolved", "round", "fee_resolved", "neg_resolved", "sign", "post">>

FailStage(err) ==
  CASE err = "get tick size" -> 1
    [] err = "invalid tickSize" -> 2
    [] err = "get fee rate bps" -> 3
    [] err = "get neg risk" -> 4
    [] err = "build signed order" -> 5
    [] OTHER -> 6

\* CreateAndPostOrder was called by c with arguments that are not nil.
Started(c) == order[c].pc # "idle" /\ order[c].params.TokenID # ""

\* Caller c ran GetTickSize(tok) to its end through a miss: it fetched and
\* it inserted.
MissedAndInserted(c, tok) ==
  /\ getter[c].fn = "GetTickSize" /\ getter[c].tokenID = tok
  /\ getter[c].pc = "ret" /\ getter[c].err = ""
  /\ "fetch_tick" \in Range(trace[c])
  /\ "insert_tick" \in Range(trace[c])

\* C1, as stated: in a sequential run from an empty cache the first
\* GetTickSize(token) issues exactly one fetch, and every later call for the
\* token issues none and returns the value the first call returned.
C1_FirstFetchesLaterHit ==
  \A c \in Procs :
    LET g == getter[c]
        f == firstTick[g.tokenID]
        fetches == Count(trace[c], "fetch_tick")
    IN (g.fn = "GetTickSize" /\ g.pc = "ret") =>
         /\ f.n = 1 => fetches = 1
         /\ f.n = 2 => fetches = 0 /\ g.tickSize = f.ret

\* C1, amended: in a sequential run from an empty cache the first
\* GetTickSize(token) issues exactly one fetch; a call whose fetch fails
\* caches nothing and returns no value, so the next call fetches again, once;
\* from the first call that returns a value on, every later call for the
\* token issues no fetch and returns that identical value, which the cache
\* holds.
C1_CachedAfterFirstValue ==
  \A c \in Procs :
    LET g == getter[c]
        f == firstTick[g.tokenID]
        fetches == Count(trace[c], "fetch_tick")
    IN (g.fn = "GetTickSize" /\ g.pc = "ret") =>
         /\ f.n = 1 => fetches = 1
         /\ g.err # "" => f.ok = 0 /\ fetches = 1 /\ g.tickSize = ""
                          /\ g.tokenID \notin DOMAIN tickSizes
         /\ (g.err = "" /\ f.ok = 1) => fetches = 1 /\ g.tickSize = f.okRet
         /\ (g.err = "" /\ f.ok = 2) => fetches = 0 /\ g.tickSize = f.okRet
         /\ g.err = "" => /\ g.tokenID \in DOMAIN tickSizes
                          /\ tickSizes[g.tokenID] = f.okRet

\* C1, witness: the first call failed, a later call returned a value, and the
\* call that just returned was served from the cache.
C1_Witness ==
  \E c \in Procs :
    /\ getter[c].fn = "GetTickSize" /\ getter[c].pc = "ret"
    /\ firstTick[getter[c].tokenID].ret = ""
    /\ firstTick[getter[c].tokenID].ok = 2
    /\ Count(trace[c], "fetch_tick") = 0
    /\ getter[c].tickSize = firstTick[getter[c].tokenID].okRet

\* C2, as stated: CreateAndPostOrder with a size that is not positive or a
\* price outside (0,1) fails with InvalidSize or InvalidPrice before any cache
\* lookup and any network call.
C2_InvalidIntentRejectedFirst ==
  \A c \in Procs :
    LET o == order[c]
        invalid == \/ ~FLess(Zero, o.params.Size)
                   \/ ~FLess(Zero, o.params.Price)
                   \/ ~FLess(o.params.Price, One)
    IN (Started(c) /\ invalid) =>
         /\ Range(trace[c]) \cap (TickEvents \cup FeeEvents \cup NegEvents \cup {"post"}) = {}
         /\ o.pc = "ret" => o.err \in {"invalid size", "invalid price"}

\* C3: the submission step is entered only with tick size, fee rate and
\* neg-risk flag resolved and a complete signed order built from them; a call
\* that fails in a resolution or in signing returns its error with a nil
\* response and has submitted nothing.
C3_NoPartialOrderSubmitted ==
  \A c \in Procs :
    LET o == order[c]
        t == trace[c]
    IN /\ (o.pc = "submit" \/ "post" \in Range(t)) =>
            /\ o.signedOrder # <<>>
            /\ Before(t, "tick_resolved", "sign")
            /\ Before(t, "fee_resolved", "sign")
            /\ Before(t, "neg_resolved", "sign")
            /\ "post" \in Range(t) => Before(t, "sign", "post")
            /\ o.signedOrder[1].FeeRateBps = o.feeRateBps
            /\ o.signedOrder[1].Contract = ContractFor(o.negRisk)
            /\ o.signedOrder[1].MakerAmount = o.makerAmount
            /\ o.signedOrder[1].TakerAmount = o.takerAmount
       /\ (o.pc = "ret" /\ o.err \in {"get tick size", "invalid tickSize", "get fee rate bps",
                                      "get neg risk", "build signed order"}) =>
            /\ o.resp = "nil"
            /\ "post" \notin Range(t)
            /\ o.signedOrder = <<>>

\* C3, witness: the neg-risk resolution failed after tick size and fee rate
\* were resolved, and the call returned.
C3_Witness ==
  \E c \in Procs :
    /\ order[c].pc = "ret" /\ order[c].err = "get neg risk"
    /\ "fee_resolved" \in Range(trace[c])

\* C4: within one CreateAndPostOrder the steps run in the order tick size,
\* rounding and amounts, fee rate, neg-risk, signing, submission: a step
\* starts only after the one before it has ended, no step runs twice, and
\* after a failure in a step nothing of a later step (no fetch either) runs.
C4_StepsInOrder ==
  \A c \in Procs :
    LET o == order[c]
        t == trace[c]
    IN Started(c) =>
         /\ \A i \in 1..(Len(t) - 1) : Stage(t[i]) <= Stage(t[i + 1])
         /\ \A i \in 1..(Len(t) - 1) : t[i] = Done[Stage(t[i])] => Stage(t[i]) < Stage(t[i + 1])
         /\ \A i \in 1..Len(t) :
              Stage(t[i]) > 1 => \E j \in 1..(i - 1) : t[j] = Done[Stage(t[i]) - 1]
         /\ \A ev \in Range(t) : Count(t, ev) = 1
         /\ (o.pc = "ret" /\ o.err # "") =>
              /\ \A i \in 1..Len(t) : Stage(t[i]) <= FailStage(o.err)
              /\ FailStage(o.err) < 6 => Done[FailStage(o.err)] \notin Range(t)

\* C4, witness: the fee rate fetch failed after the price was rounded, and the
\* call returned.
C4_Witness ==
  \E c \in Procs :
    /\ order[c].pc = "ret" /\ order[c].err = "get fee rate bps"
    /\ "round" \in Range(trace[c])
    /\ "fetch_fee" \in Range(trace[c])

\* C5: a call with a tick size override does no tick size lookup or fetch and
\* leaves the tick size cache as it is; a call with a neg-risk override does no
\* neg-risk lookup or fetch and leaves the neg-risk cache as it is; the fee
\* rate of every call that gets that far comes through the fee rate cache.
C5_OverridesBypassCache ==
  [][\A c \in Procs :
       LET o == order'[c]
           t == trace'[c]
           running == order[c].pc \notin {"idle", "ret"}
       IN (o.pc # "idle" /\ o.params.TokenID # "") =>
            /\ o.config.TickSize # "" =>
                 /\ Range(t) \cap TickEvents = {}
                 /\ running => tickSizes' = tickSizes
            /\ o.config.NegRisk # <<>> =>
                 /\ Range(t) \cap NegEvents = {}
                 /\ running => negRisks' = negRisks
            /\ o.pc \in {"neg", "neg_wait", "sign", "submit"} => "fee_resolved" \in Range(t)
            /\ "fee_resolved" \in Range(t) => "lookup_fee" \in Range(t)
    ]_vars

\* C5, witness: a call with both overrides is about to be submitted; the tick
\* size and neg-risk caches are still empty and the fee rate cache has the token.
C5_Witness ==
  \E c \in Procs :
    /\ order[c].pc = "submit"
    /\ order[c].config.TickSize # "" /\ order[c].config.NegRisk # <<>>
    /\ tickSizes = EmptyMap /\ negRisks = EmptyMap
    /\ order[c].params.TokenID \in DOMAIN feeRates

\* C6: the three cached fields are independent: a map changes only in the
\* insert of its own getter, for the token of that call, while the other two
\* maps stay as they are; a getter called directly looks up, fetches and
\* inserts for its own field only.
C6_FieldsIndependent ==
  [][/\ tickSizes' # tickSizes =>
          /\ feeRates' = feeRates /\ negRisks' = negRisks
          /\ \E c \in Procs :
               /\ getter[c].fn = "GetTickSize" /\ getter[c].pc = "store"
               /\ \A k \in DOMAIN tickSizes \ {getter[c].tokenID} :
                    k \in DOMAIN tickSizes' /\ tickSizes'[k] = tickSizes[k]
     /\ feeRates' # feeRates =>
          /\ tickSizes' = tickSizes /\ negRisks' = negRisks
          /\ \E c \in Procs :
               /\ getter[c].fn = "GetFeeRateBps" /\ getter[c].pc = "store"
               /\ \A k \in DOMAIN feeRates \ {getter[c].tokenID} :
                    k \in DOMAIN feeRates' /\ feeRates'[k] = feeRates[k]
     /\ negRisks' # negRisks =>
          /\ tickSizes' = tickSizes /\ feeRates' = feeRates
          /\ \E c \in Procs :
               /\ getter[c].fn = "GetNegRisk" /\ getter[c].pc = "store"
               /\ \A k \in DOMAIN negRisks \ {getter[c].tokenID} :
                    k \in DOMAIN negRisks' /\ negRisks'[k] = negRisks[k]
     /\ \A c \in Procs :
          ~getter'[c].nested =>
            /\ getter'[c].fn = "GetTickSize" => Range(trace'[c]) \subseteq TickEvents
            /\ getter'[c].fn = "GetFeeRateBps" => Range(trace'[c]) \subseteq FeeEvents
            /\ getter'[c].fn = "GetNegRisk" => Range(trace'[c]) \subseteq NegEvents
    ]_vars

\* C6, witness: a token is in the tick size map and in neither of the other
\* two, while another token is in the fee rate map only.
C6_Witness ==
  \E a, b \in Tokens :
    /\ a # b
    /\ a \in DOMAIN tickSizes /\ a \notin DOMAIN feeRates /\ a \notin DOMAIN negRisks
    /\ b \in DOMAIN feeRates /\ b \notin DOMAIN tickSizes /\ b \notin DOMAIN negRisks

\* C7: two concurrent GetTickSize calls that both miss are not merged: both
\* fetch and both insert; when the remote side gave one answer to all, both
\* return the value of that answer and the cache holds it.
C7_ConcurrentMissesNotMerged ==
  \A c, d \in Procs, tok \in Tokens :
    (c # d /\ MissedAndInserted(c, tok) /\ MissedAndInserted(d, tok)
       /\ Cardinality(served["tick"][tok]) = 1) =>
      \A b \in served["tick"][tok] :
        /\ getter[c].tickSize = FormatFloat(ParseFloat(b))
        /\ getter[d].tickSize = FormatFloat(ParseFloat(b))
        /\ tok \in DOMAIN tickSizes
        /\ tickSizes[tok] = FormatFloat(ParseFloat(b))

\* C7, witness: both callers have fetched and inserted the tick size of the
\* same token, and the remote side gave one answer.
C7_Witness ==
  \E c, d \in Procs, tok \in Tokens :
    /\ c # d
    /\ MissedAndInserted(c, tok) /\ MissedAndInserted(d, tok)
    /\ Cardinality(served["tick"][tok]) = 1

\* C8: under every interleaving of getter calls and CreateAndPostOrder calls
\* an entry of any of the three maps is never removed, and while the remote
\* side has given one answer for the field and token its value never changes.
C8_CacheAppendOnly ==
  [][/\ \A k \in DOMAIN tickSizes :
          /\ k \in DOMAIN tickSizes'
          /\ Cardinality(served'["tick"][k]) <= 1 => tickSizes'[k] = tickSizes[k]
     /\ \A k \in DOMAIN feeRates :
          /\ k \in DOMAIN feeRates'
          /\ Cardinality(served'["fee"][k]) <= 1 => feeRates'[k] = feeRates[k]
     /\ \A k \in DOMAIN negRisks :
          /\ k \in DOMAIN negRisks'
          /\ Cardinality(served'["neg"][k]) <= 1 => negRisks'[k] = negRisks[k]
    ]_vars

\* C8, witness: a CreateAndPostOrder call was accepted while the other caller
\* ran a getter; both inserted the fee rate of the token, and all three maps
\* have the token.
C8_Witness ==
  \E c, d \in Procs :
    /\ c # d
    /\ order[c].pc = "ret" /\ order[c].resp = "accepted"
    /\ "insert_fee" \in Range(trace[c]) /\ "insert_fee" \in Range(trace[d])
    /\ order[c].params.TokenID \in DOMAIN tickSizes \cap DOMAIN feeRates \cap DOMAIN negRisks

\* C9: a getter whose fetch fails returns the error with no value and leaves
\* the three maps as they are; CreateAndPostOrder returns that error, with a
\* nil response, without asking again; no call fetches a field twice.
C9_FetchFailureNotCachedNotRetried ==
  [][\A c \in Procs :
       /\ (getter[c].pc = "fetch" /\ getter'[c].pc = "ret") =>
            /\ getter'[c].err # ""
            /\ cacheVars' = cacheVars
            /\ getter'[c].tickSize = "" /\ getter'[c].feeRate = 0 /\ ~getter'[c].negRisk
       /\ (getter[c].nested /\ getter[c].pc = "ret" /\ getter[c].err # ""
             /\ <<order[c], getter[c]>>' # <<order[c], getter[c]>>) =>
            /\ order'[c].pc = "ret" /\ order'[c].resp = "nil"
            /\ order'[c].err = (CASE getter[c].fn = "GetTickSize" -> "get tick size"
                                  [] getter[c].fn = "GetFeeRateBps" -> "get fee rate bps"
                                  [] getter[c].fn = "GetNegRisk" -> "get neg risk")
            /\ trace'[c] = trace[c]
       /\ \A ev \in {"fetch_tick", "fetch_fee", "fetch_neg"} : Count(trace'[c], ev) <= 1
    ]_vars

\* C9, witness: the tick size fetch of a CreateAndPostOrder call failed; the
\* call returned after that one fetch and the maps are empty.
C9_Witness ==
  \E c \in Procs :
    /\ order[c].pc = "ret" /\ order[c].err = "get tick size"
    /\ Count(trace[c], "fetch_tick") = 1
    /\ tickSizes = EmptyMap /\ feeRates = EmptyMap /\ negRisks = EmptyMap

\* C10, as stated: roundToTickSize is idempotent: for a price in (0,1) and a
\* tick size above zero, rounding the rounded price again gives the same price.
C10_RoundIdempotent ==
  (rp[1] > 0 /\ FLess(Dec(rp[1], rp[2]), One)) => \A i \in 2..Len(rr) : rr[i] = rr[1]

\* The tolerance of the comparison of two prices, 1e-9.
Tolerance == Dec(1, 9)

\* C11, as stated: for every price p and tick size t the result of
\* roundToTickSize is round(p / t) * t, ties rounded away from zero, so an
\* integer multiple of t within t/2 of p (compared within 1e-9).  p is the
\* decimal n / 10^k and t the decimal d / 10^j, so p / t = n * 10^j / (d * 10^k).
C11_RoundHalfAwayFromZero ==
  rr # <<>> =>
    LET v == DecimalValue(rt)
        num == BMul(BFromInt(Abs(rp[1])), BPow10(v[2]))
        den == BMul(BFromInt(v[1]), BPow10(rp[2]))
        K == BDivMod(BAdd(BShl(num, 1), den), BShl(den, 1))[1]
        expected == IF K = <<>> THEN Zero
                    ELSE FRatio(Sign(rp[1]), BMul(K, BFromInt(v[1])), BPow10(v[2]), 0)
        diff == FAdd(rr[1], FNeg(expected))
    IN ~FLess(Tolerance, <<Abs(diff[1]), diff[2], diff[3]>>)
\* The integer nearest to a * b * 10^6, computed on the exact values of the
\* floats a and b (a half rounds away from zero).
RoundScaled(a, b) ==
  IF a[1] = 0 \/ b[1] = 0 THEN 0
  ELSE LET m == BMul(BMul(a[2], b[2]), BPow10(6))
           e == a[3] + b[3]
           n == IF e >= 0 THEN BShl(m, e) ELSE BShr(BAdd(m, BShl(<<1>>, (-e) - 1)), -e)
       IN a[1] * b[1] * BToInt(n)

\* The call of caller c has computed its two amounts.
AmountsComputed(c) == Started(c) /\ "round" \in Range(trace[c])

\* C12, as stated: the amounts are integers at 6-decimal scale: for a BUY order
\* the maker amount is round(rounded price * size * 10^6) and the taker amount
\* round(size * 10^6); for a SELL order the two are exchanged.
C12_AmountsRoundedAtSixDecimals ==
  \A c \in Procs :
    AmountsComputed(c) =>
      LET o == order[c]
          usdc == RoundScaled(o.roundedPrice, o.params.Size)
          toks == RoundScaled(One, o.params.Size)
      IN /\ o.makerAmount = IF o.params.Side = 0 THEN usdc ELSE toks
         /\ o.takerAmount = IF o.params.Side = 0 THEN toks ELSE usdc
\* A state after RoundPrice with the amounts of the claim's example, bought.
AmountsOfExample ==
  \E c \in Procs :
    /\ AmountsComputed(c)
    /\ order[c].params.Price = Dec(50, 2) /\ order[c].params.Side = 0
    /\ order[c].makerAmount = 2500000 /\ order[c].takerAmount = 5000000

\* The two calls of SignL2Auth have been made; the inputs the claims compare.
BothCalled == l2.first # <<>> /\ l2.second # <<>>
BothSigned == BothCalled /\ l2.first[1].res.headers # <<>> /\ l2.second[1].res.headers # <<>>
SignedInputs == {"timestamp", "method", "path", "body", "secret"}
Differing(a, b) == {f \in SignedInputs : a[f] # b[f]}
SignatureOf(call) == call.res.headers[1].Signature

\* C13: SignL2Auth is deterministic: the signed message is the decimal
\* timestamp, the method, the path and the body, and two calls with the same
\* timestamp, method, path, body and secret return the same signature (or fail
\* alike), whatever the address, the api key and the passphrase are.
C13_L2SignatureDeterministic ==
  BothCalled =>
    LET x == l2.first[1]
        y == l2.second[1]
    IN /\ x.res.headers # <<>> =>
            SignatureOf(x)[3] = ToString(x.args.timestamp) \o x.args.method
                                  \o x.args.path \o x.args.body
       /\ Differing(x.args, y.args) = {} =>
            /\ x.res.err = y.res.err
            /\ (x.res.headers = <<>>) = (y.res.headers = <<>>)
            /\ x.res.headers # <<>> => SignatureOf(x) = SignatureOf(y)

\* C13, witness: two signed calls with the same five inputs, a body among
\* them, and another address, api key and passphrase.
C13_Witness ==
  /\ BothSigned
  /\ Differing(l2.first[1].args, l2.second[1].args) = {}
  /\ l2.first[1].args.body # ""
  /\ l2.first[1].args.address # l2.second[1].args.address
  /\ l2.first[1].args.apiKey # l2.second[1].args.apiKey
  /\ l2.first[1].args.passphrase # l2.second[1].args.passphrase

KeyOfSecret(secret) == StripZeros(DecodeString(toBase64(secret))[2])

SameBut(s, t, chars) ==
  /\ Len(t) = Len(s)
  /\ \A i \in 1..Len(s) : Char(t, i) = Char(s, i) \/ Char(s, i) \in chars

\* C15: for every valid standard base64 text s, toBase64(toURLSafeBase64(s))
\* is s; each translation keeps the length and every character, '=' included,
\* but '+' and '/' (toURLSafeBase64) or '-' and '_' (toBase64).
C15_Base64RoundTrip ==
  /\ Len(b64) >= 2 => SameBut(b64[1], b64[2], {"+", "/"})
  /\ Len(b64) >= 3 => SameBut(b64[2], b64[3], {"-", "_"})
  /\ (Len(b64) >= 3 /\ DecodeString(b64[1])[1]) => b64[3] = b64[1]

\* C15, witness: a valid text with '+', '/' and padding, taken there and back.
C15_Witness ==
  /\ Len(b64) = 3
  /\ b64[1] = "+/A="
  /\ DecodeString(b64[1])[1]
  /\ b64[2] = "-_A="

\* C16: SignL1Auth called with an address that is no well-formed hex address
\* fails with the invalid address error, returns no headers and goes through
\* no hashing or signing step.
C16_InvalidAddressNotSigned ==
  \A c \in Procs :
    (auth[c].fn = "SignL1Auth" /\ auth[c].pc = "ret" /\ ~IsHexAddress(auth[c].address)) =>
      /\ auth[c].err = "invalid address format"
      /\ auth[c].headers = <<>>
      /\ trace[c] = <<>>

\* C16, witness: SignL1Auth has returned from a call with the address 0xG.
C16_Witness ==
  \E c \in Procs :
    /\ auth[c].fn = "SignL1Auth" /\ auth[c].pc = "ret"
    /\ auth[c].address = "0xG"
    /\ auth[c].err # ""

\* C17: after a successful CreateAPICredentials or DeriveAPICredentials call,
\* and after a SetAPICredentials call, the api key, the secret and the
\* passphrase of the client are the three values of that call; while a
\* registration call runs and when it failed, the three are what they were
\* when it was called.
C17_CredentialsOverwrittenWholesale ==
  \A c \in Procs :
    LET f == auth[c] IN
    /\ (f.fn \in Registrations /\ f.pc = "ret" /\ f.err = "") =>
         /\ creds = [apiKey |-> f.body[1].creds.Key,
                     apiSecret |-> f.body[1].creds.Secret,
                     apiPassphrase |-> f.body[1].creds.Passphrase]
         /\ f.ret = <<f.body[1].creds>>
    /\ (f.fn = "SetAPICredentials" /\ f.pc = "ret") =>
         creds = [apiKey |-> f.ret[1].Key, apiSecret |-> f.ret[1].Secret,
                  apiPassphrase |-> f.ret[1].Passphrase]
    /\ (f.fn \in Registrations /\ (f.pc # "ret" \/ f.err # "")) => creds = f.before

\* C17, witness: a registration succeeded on a client that had credentials,
\* with an answer that holds a key only.
C17_Witness ==
  \E c \in Procs :
    /\ auth[c].fn = "DeriveAPICredentials" /\ auth[c].pc = "ret" /\ auth[c].err = ""
    /\ auth[c].before = GoodCreds
    /\ auth[c].body[1].creds.Secret = ""
    /\ creds.apiSecret = ""

ThirtyDays == 2592000

\* C18, as stated: every order built by CreateAndPostOrder has nonce 0; its
\* expiration is 0 for every order type but GTD, and the time of signing plus
\* 2,592,000 seconds for GTD.
C18_ExpirationFromSigningTime ==
  \A c \in Procs :
    order[c].signedOrder # <<>> =>
      /\ order[c].signedOrder[1].Nonce = 0
      /\ order[c].signedOrder[1].Expiration =
           IF order[c].orderType = "GTD" THEN order[c].signedAt + ThirtyDays ELSE 0

\* C18, amended: every order built by CreateAndPostOrder has nonce 0; its
\* expiration is set when the fee rate has been resolved, to 0 for every order
\* type but GTD and to the time of that step plus 2,592,000 seconds for GTD,
\* and the order is signed later with that expiration.
C18_ExpirationFromItsStep ==
  [][\A c \in Procs :
       /\ (order[c].pc = "fee_wait" /\ order'[c].pc = "neg") =>
            order'[c].expiration =
              IF order[c].orderType = "GTD" THEN clock + ThirtyDays ELSE 0
       /\ order[c].pc \in {"neg", "neg_wait", "sign"} =>
            order'[c].expiration = order[c].expiration
       /\ (order[c].signedOrder = <<>> /\ order'[c].signedOrder # <<>>) =>
            /\ order'[c].signedOrder[1].Nonce = 0
            /\ order'[c].signedOrder[1].Expiration = order[c].expiration]_vars

\* C18, witness: a GTD order signed a second after its expiration was set.
C18_Witness ==
  \E c \in Procs :
    /\ order[c].signedOrder # <<>>
    /\ order[c].orderType = "GTD"
    /\ order[c].signedAt = StartTime + 1
    /\ order[c].signedOrder[1].Expiration = StartTime + ThirtyDays

\* C19: in every order payload the maker is the configured funder address, or
\* the signer's own address when no funder is configured; the taker is the
\* zero address; the signer is the address derived from the private key.
C19_MakerTakerSigner ==
  \A c \in Procs :
    order[c].signedOrder # <<>> =>
      LET so == order[c].signedOrder[1] IN
      /\ so.Maker = IF funder = "" THEN Checksum(SignerAddress) ELSE Checksum(funder)
      /\ so.Taker = Checksum(ZeroAddress)
      /\ so.Signer = Checksum(SignerAddress)

\* C19, witness: an order signed on a client with a funder.
C19_Witness ==
  \E c \in Procs :
    /\ funder = "0xf"
    /\ order[c].signedOrder # <<>>
    /\ order[c].signedOrder[1].Maker = "0xF"
    /\ order[c].signedOrder[1].Signer = "0xA"

\* C20: the verifying contract is the negative-risk exchange exactly when the
\* resolved neg-risk flag is true and the standard exchange exactly when it is
\* false; the resolved flag is the override of the caller when one is given
\* and the cached or fetched value of the token otherwise.
C20_ContractFollowsNegRisk ==
  \A c \in Procs :
    LET o == order[c] IN
    (Started(c) /\ "neg_resolved" \in Range(trace[c])) =>
      /\ IF o.config.NegRisk # <<>>
           THEN o.negRisk = o.config.NegRisk[1]
           ELSE /\ o.params.TokenID \in DOMAIN negRisks
                /\ o.negRisk = negRisks[o.params.TokenID]
                /\ o.negRisk \in served["neg"][o.params.TokenID]
      /\ o.contract = "NegRiskCTFExchange" <=> o.negRisk
      /\ o.contract = "CTFExchange" <=> ~o.negRisk
      /\ o.signedOrder # <<>> => o.signedOrder[1].Contract = o.contract

\* C20, witness: an order signed for the negative-risk exchange on the flag
\* of the cache, and (another call) for the standard exchange on an override.
C20_Witness ==
  \E c \in Procs :
    /\ order[c].signedOrder # <<>>
    /\ order[c].config.NegRisk = <<>>
    /\ order[c].params.TokenID \in DOMAIN negRisks
    /\ negRisks[order[c].params.TokenID]
    /\ order[c].signedOrder[1].Contract = "NegRiskCTFExchange"
\* Standard base64 with padding, on texts without line breaks: groups of four
\* characters of the alphabet, the last group ending in at most two '='.
ValidStdBase64(s) ==
  /\ Len(s) % 4 = 0
  /\ \A i \in 1..Len(s) :
       \/ InStdAlphabet(Char(s, i))
       \/ /\ Char(s, i) = "="
          /\ i >= Len(s) - 1
          /\ Char(s, Len(s)) = "="

L2Calls == {l2[k][1] : k \in {k \in {"first", "second"} : l2[k] # <<>>}}

HoldsShared(c) == c \in mu.readers
HoldsExclusive(c) == mu.writer = c
Reading(c) == getter[c].pc = "lookup"
Inserting(c) == getter[c].pc = "store"

\* C22: a caller holds the shared lock exactly while it is at the map read and
\* the exclusive lock exactly while it is at the map insert, so none inside
\* the remote fetch; an insert overlaps no read and no other insert; and a map
\* changes only in a step taken under the exclusive lock.
C22_LockDiscipline ==
  /\ [](\A c \in Procs :
         /\ HoldsShared(c) <=> Reading(c)
         /\ HoldsExclusive(c) <=> Inserting(c)
         /\ getter[c].pc = "fetch" => ~HoldsShared(c) /\ ~HoldsExclusive(c)
         /\ Inserting(c) => \A d \in Procs \ {c} : ~Reading(d) /\ ~Inserting(d))
  /\ [][cacheVars' # cacheVars => mu.writer # NoProc /\ mu.readers = {}
                                    /\ mu'.writer = NoProc]_vars

\* C22, witness: one caller is at the insert, under the exclusive lock, while
\* the other is inside the remote fetch.
C22_Witness ==
  \E c, d \in Procs :
    /\ c # d
    /\ Inserting(c) /\ HoldsExclusive(c)
    /\ getter[d].pc = "fetch"

\* The operations that have sent their request.
Sent(c) == http[c].sent # <<>>

\* C23: the method, the path with its query string and the body that the L2
\* signature of an operation covers are those of the request it sends, and
\* the signed body is "" exactly when the request has no body.
C23_SignedIsSent ==
  \A c \in Procs :
    Sent(c) =>
      LET g == http[c].signed[1]
          r == http[c].sent[1]
      IN /\ g.method = r.method
         /\ g.path = r.path
         /\ r.body # <<>> => g.body = r.body[1]
         /\ (g.body = "") <=> (r.body = <<>>)
         /\ r.headers.Signature[3] = ToString(clock) \o r.method \o r.path \o g.body

\* The client lacks its api key, its secret or its passphrase.
MissingCredentials ==
  creds.apiKey = "" \/ creds.apiSecret = "" \/ creds.apiPassphrase = ""

\* C24: on a client that lacks its api key, its secret or its passphrase an
\* L2-authenticated operation computes no signature and sends no request, it
\* returns an error, and it does no step a second time.
C24_MissingCredentialsFatal ==
  MissingCredentials =>
    \A c \in Procs :
      /\ http[c].signed = <<>> /\ http[c].headers = <<>> /\ http[c].sent = <<>>
      /\ "sign" \notin Range(trace[c]) /\ "send" \notin Range(trace[c])
      /\ http[c].pc = "ret" => http[c].err # ""
      /\ \A ev \in Range(trace[c]) : Count(trace[c], ev) = 1

\* C24, witness: CreateOrder was given an api key, the client has none but
\* has a secret and a passphrase, and the call failed in generateL2Headers.
C24_Witness ==
  \E c \in Procs :
    /\ http[c].op = "CreateOrder" /\ http[c].arg # ""
    /\ creds.apiKey = "" /\ creds.apiSecret # "" /\ creds.apiPassphrase # ""
    /\ http[c].pc = "ret"
    /\ http[c].err = "generate L2 headers: API key is required"

\* C28: in every request CreateOrder sends, the owner of the body is the api
\* key of the L2 headers.
C28_OwnerIsHeaderKey ==
  \A c \in Procs :
    (Sent(c) /\ http[c].op = "CreateOrder") =>
      http[c].body[1].owner = http[c].sent[1].headers.APIKey

\* C27: the L2 headers of an operation are built from the api key, the secret
\* and the passphrase of one credential set.
C27_HeadersFromOneCredentialSet ==
  \A c \in Procs :
    http[c].headers # <<>> =>
      \E k \in L2CredentialSets :
        /\ http[c].headers[1].APIKey = k.Key
        /\ http[c].headers[1].Signature[2] = HmacBlock(DecodeString(toBase64(k.Secret))[2])
        /\ http[c].headers[1].Passphrase = k.Passphrase

\* A tick size text that denotes a number above zero.
PositiveTick(t) == CanParseFloat(t) /\ DecimalValue(t)[1] > 0

\* C25: CreateAndPostOrder rounds the price and computes the amounts only
\* with a tick size above zero, and GetTickSize stores no tick size that is
\* zero or below.
C25_NonPositiveTickRejected ==
  /\ \A c \in Procs :
       (Started(c) /\ "round" \in Range(trace[c])) => PositiveTick(order[c].tickSizeStr)
  /\ \A tok \in DOMAIN tickSizes : PositiveTick(tickSizes[tok])

\* The map a getter reads and fills, and the value its call returned.
MapOf(fn) ==
  CASE fn = "GetTickSize" -> tickSizes
    [] fn = "GetFeeRateBps" -> feeRates
    [] fn = "GetNegRisk" -> negRisks

FetchEventOf(fn) ==
  CASE fn = "GetTickSize" -> "fetch_tick"
    [] fn = "GetFeeRateBps" -> "fetch_fee"
    [] fn = "GetNegRisk" -> "fetch_neg"

\* The getter call of c returned a value that the remote side answered for its
\* token, and the map holds that value for the token.
ReturnedAndCached(c) ==
  LET g == getter[c] IN
  /\ g.tokenID \in DOMAIN MapOf(g.fn)
  /\ CASE g.fn = "GetTickSize" ->
            /\ tickSizes[g.tokenID] = g.tickSize
            /\ \E b \in served["tick"][g.tokenID] : g.tickSize = FormatFloat(ParseFloat(b))
       [] g.fn = "GetFeeRateBps" ->
            /\ feeRates[g.tokenID] = g.feeRate
            /\ g.feeRate \in served["fee"][g.tokenID]
       [] g.fn = "GetNegRisk" ->
            /\ negRisks[g.tokenID] = g.negRisk
            /\ g.negRisk \in served["neg"][g.tokenID]

\* C26: failures are never cached: when a GetTickSize, GetFeeRateBps or
\* GetNegRisk call has returned an error, its token is absent from that map;
\* the next call for the token fetches anew, once, and when the fetch succeeds
\* it returns the fetched value and the map holds it.
C26_FailuresNotCached ==
  \A c \in callers :
    LET g == getter[c]
        again == trace[c] # <<>> /\ trace[c][1] = "retry"
    IN /\ (g.pc = "ret" /\ g.err # "") => g.tokenID \notin DOMAIN MapOf(g.fn)
       /\ (again /\ g.pc \in {"lock", "store", "ret"}) =>
            Count(trace[c], FetchEventOf(g.fn)) = 1
       /\ (again /\ g.pc = "ret" /\ g.err = "") => ReturnedAndCached(c)

\* C26, witness: a getter call failed, the call was repeated, its fetch
\* succeeded and the repeated call returned the value now in the map.
C26_Witness ==
  \E c \in callers :
    /\ trace[c] # <<>> /\ trace[c][1] = "retry"
    /\ getter[c].fn = "GetNegRisk" /\ getter[c].pc = "ret" /\ getter[c].err = ""
    /\ "insert_neg" \in Range(trace[c])
    /\ negRisks[getter[c].tokenID] = getter[c].negRisk


\* C29, as stated: the signature binds method, path and body separately: two
\* signed calls of SignL2Auth with the same timestamp and secret whose
\* (method, path, body) triples differ sign different messages and return
\* different signatures.
C29_FieldsBoundSeparately ==
  BothSigned =>
    LET x == l2.first[1]
        y == l2.second[1]
    IN (/\ x.args.timestamp = y.args.timestamp
        /\ x.args.secret = y.args.secret
        /\ <<x.args.method, x.args.path, x.args.body>>
             # <<y.args.method, y.args.path, y.args.body>>)
         => /\ SignatureOf(x)[3] # SignatureOf(y)[3]
            /\ SignatureOf(x) # SignatureOf(y)

\* A getter call of c is running: called and not yet returned.
Running(c) == getter[c].pc \notin {"idle", "ret"}

\* C30: under fair scheduling, with fetches that always return, every
\* GetTickSize, GetFeeRateBps and GetNegRisk call of concurrent callers
\* eventually returns; a caller outside a call, whether it returned by a hit,
\* an insert, a request error or a decode error, holds the lock neither shared
\* nor exclusively; and while calls are running one of them can take a step.
C30_GettersReturnLocksReleased ==
  /\ [](\A c \in Procs :
          (~Running(c) \/ getter[c].pc \in {"rlock", "fetch", "lock"})
             => (c \notin mu.readers /\ mu.writer # c))
  /\ []((\E c \in Procs : Running(c)) => \E c \in Procs : ENABLED GetterStep(c))
  /\ \A c \in Procs : Running(c) ~> (getter[c].pc = "ret")

\* C30, witness: one caller waits for the exclusive lock while the other holds
\* the lock shared, after a call of that other caller returned an error.
C30_Witness ==
  \E c, d \in Procs :
    /\ c # d
    /\ getter[c].pc = "lock" /\ ~CanLock
    /\ getter[d].pc = "lookup" /\ d \in mu.readers
    /\ served["tick"]["t1"] \cup served["fee"]["t1"] \cup served["neg"]["t1"] # {}

====
